---- MODULE Spec2Model ----
(***************************************************************************)
(* AtC-Rank: the incremental submission ingestion and scoring engine.      *)
(* polling_loop / poll_all_users / poll_user / handle_ac of src/main.py    *)
(* over the store of src/db.py, with the pure functions of src/scoring.py  *)
(* and src/utils.py.                                                       *)
(***************************************************************************)
EXTENDS Integers, Sequences, FiniteSets, TLC

(***************************************************************************)
(* Optional values: Python's None is the empty tuple, a present value v is *)
(* the one-element tuple <<v>>.                                            *)
(***************************************************************************)
None == << >>
Some(v) == << v >>
Val(o) == o[1]

\* Python truthiness of an optional integer (None and 0 are falsy).
Truthy(o) == o # None /\ Val(o) # 0

\* Python's `x or 0` on an optional integer.
OrZero(o) == IF Truthy(o) THEN Val(o) ELSE 0

Max2(a, b) == IF a >= b THEN a ELSE b
Min2(a, b) == IF a <= b THEN a ELSE b

(***************************************************************************)
(* Bounds of the model.                                                    *)
(***************************************************************************)
\* Submissions that become visible at the remote source during one run.
MaxSubs == 3
\* Store, fetch and notification failures injected during one run.
MaxFailures == 1
\* Deliveries of the gateway's READY event after the first one.
MaxReconnects == 1
\* Direct calls of the store's functions in one run.
MaxCalls == 3
\* Hours after 1970-01-01 00:00 UTC at which week_start_jst is evaluated.
MaxHours == 360
\* The longest streak streak_multiplier is evaluated at.
MaxStreak == 10
\* Ratings and difficulties are 0, 100, ..., 100 * MaxGrade.
MaxGrade == 20
\* Raw difficulties reach 400 + MaxHalvesAbove / 2.
MaxHalvesAbove == 20

(***************************************************************************)
(* Program constants.                                                      *)
(***************************************************************************)
LOOKBACK_SECONDS == 86400
DAY_SECONDS == 86400
COOLDOWN_SECONDS == 604800
RETRIES == 3
JST_OFFSET_SECONDS == 32400
ANCHOR_HOUR_SECONDS == 25200
INITIAL_FETCH_EPOCH == 1000
FLAT_BASE_SCORE == 150
STREAK_CAP == 7

(***************************************************************************)
(* src/utils.py                                                            *)
(***************************************************************************)
\* to_jst(dt).date(), as a day number (day 0 is 1970-01-01 in JST).
JstDate(epoch) == (epoch + JST_OFFSET_SECONDS) \div DAY_SECONDS

\* datetime.weekday() of a JST day number: Monday is 0; day 0 was a Thursday.
Weekday(day) == (day + 3) % 7

\* Without the step back to the previous week.
week_start_jst_no_rollback(epoch) ==
    LET day == (epoch + JST_OFFSET_SECONDS) \div DAY_SECONDS
    IN  (day - Weekday(day)) * DAY_SECONDS + ANCHOR_HOUR_SECONDS - JST_OFFSET_SECONDS

\* week_start_jst(dt), as epoch seconds.
week_start_jst(epoch) ==
    LET jst    == epoch + JST_OFFSET_SECONDS
        day    == jst \div DAY_SECONDS
        monday == (day - Weekday(day)) * DAY_SECONDS + ANCHOR_HOUR_SECONDS
        start  == IF jst < monday THEN monday - 7 * DAY_SECONDS ELSE monday
    IN  start - JST_OFFSET_SECONDS

\* Raw difficulties are counted in halves: k stands for difficulty_raw = k / 2.
\* round(400.0 / math.exp(1.0 - raw / 400.0)), tabulated with CPython at
\* raw = -2001, -2000, -400, 0, 0.5, 1, 1.5, 2, 200 and 390, 390.5, ..., 399.5.
CompressedTable ==
    [k \in {-4002, -4000, -800, 0, 1, 2, 3, 4, 400} \cup (780 .. 799) |->
        CASE k = -4002 -> 1 [] k = -4000 -> 1 [] k = -800 -> 54
          [] k = 0 -> 147 [] k = 1 -> 147 [] k = 2 -> 148 [] k = 3 -> 148
          [] k = 4 -> 148 [] k = 400 -> 243
          [] OTHER -> <<390, 391, 391, 392, 392, 393, 393, 394, 394, 395,
                        395, 396, 396, 397, 397, 398, 398, 399, 399, 400>>[k - 779]]

\* round(k / 2): k / 2 is an exact double, rounded half to even.
RoundHalves(k) ==
    LET q == k \div 2
    IN  IF k % 2 = 0 \/ q % 2 = 0 THEN q ELSE q + 1

\* No compression below 400.
display_difficulty_uncompressed(k) == RoundHalves(k)

\* display_difficulty(difficulty_raw) for difficulty_raw = k / 2.
display_difficulty(k) ==
    IF k < 800 THEN CompressedTable[k] ELSE RoundHalves(k)

(***************************************************************************)
(* src/scoring.py                                                          *)
(***************************************************************************)
\* round(500.0 / (1.0 + math.exp(x / 400.0))) for x = rating - difficulty,
\* tabulated with CPython at x = -2400, -2300, ..., 2400.
LogisticValues ==
    <<499, 498, 498, 497, 497, 496, 495, 493, 491, 489, 485, 481, 476,
      470, 462, 452, 440, 426, 409, 389, 366, 340, 311, 281, 250, 219,
      189, 160, 134, 111, 91, 74, 60, 48, 38, 30, 24, 19, 15, 11, 9,
      7, 5, 4, 3, 3, 2, 2, 1>>

LogisticTable ==
    [x \in {100 * i - 2400 : i \in 0 .. 48} |-> LogisticValues[(x + 2400) \div 100 + 1]]

\* The rating and the difficulty change places.
base_score_swapped(rating, difficulty) == LogisticTable[difficulty - rating]

base_score(rating, difficulty) == LogisticTable[rating - difficulty]

\* The streak is not capped.
streak_multiplier_uncapped(streak) == 100 + streak * 5

\* streak_multiplier(streak) = 1.0 + min(streak, 7) * 0.05, in hundredths.
streak_multiplier(streak) == 100 + Min2(streak, STREAK_CAP) * 5

\* Round half to even of n / 100 (Python's round on an exact value).
RoundHalfEven(n) ==
    LET q == n \div 100
        r == n % 100
    IN  IF r < 50 THEN q
        ELSE IF r > 50 THEN q + 1
        ELSE IF q % 2 = 0 THEN q ELSE q + 1

\* The (score_base, min(streak, 7)) pairs in 0..500 x 0..7 at which the
\* double product score_base * mult is not the exact tie x.5, with the
\* direction in which CPython's round(score_base * mult) then leaves the
\* half-to-even result.
FloatTieShift ==
    [p \in {<<50, 3>>, <<90, 3>>, <<170, 3>>, <<210, 3>>, <<330, 3>>,
            <<370, 3>>, <<410, 3>>,
            <<55, 2>>, <<95, 2>>, <<115, 2>>, <<175, 2>>, <<195, 2>>,
            <<215, 2>>, <<335, 2>>, <<355, 2>>, <<375, 2>>, <<395, 2>>,
            <<415, 2>>, <<435, 2>>, <<455, 2>>, <<350, 7>>} |->
        IF p[2] = 3 THEN -1 ELSE 1]

\* Rounding half up instead.
final_score_half_up(score_base, new_streak) ==
    (score_base * streak_multiplier(new_streak) + 50) \div 100

\* round(score_base * mult) with mult = streak_multiplier(new_streak).
final_score(score_base, new_streak) ==
    LET k == Min2(new_streak, STREAK_CAP)
        exact == RoundHalfEven(score_base * streak_multiplier(new_streak))
    IN  IF <<score_base, k>> \in DOMAIN FloatTieShift
        THEN exact + FloatTieShift[<<score_base, k>>]
        ELSE exact

(***************************************************************************)
(* State.                                                                  *)
(***************************************************************************)
VARIABLES
    users,          \* table users: discord_id -> [is_active]
    problems,       \* table problems: problem_id -> [difficulty]
    ratings,        \* table ratings: discord_id -> rating
    fetch_state,    \* table user_fetch_state: discord_id -> watermark
    streaks,        \* table streaks: discord_id -> streak
    weekly_scores,  \* table weekly_scores: <<week_start, discord_id>> -> score
    submissions,    \* table submissions: the append-only log
    last_ac,        \* table user_problem_last_ac: <<discord_id, problem_id>> -> last_ac_at
    remote,         \* the remote source: discord_id -> results it serves now
    pending,        \* discord_id -> submissions the user has yet to make visible
    task,           \* polling_loop tasks: their position and local variables
    failures,       \* number of failures raised so far
    prev,           \* discord_id -> the last finished poll_user cycle (history)
    calls           \* the latest direct calls of db / scoring / utils functions (history)

store == <<fetch_state, streaks, weekly_scores, submissions, last_ac>>
credit == <<streaks, weekly_scores, submissions, last_ac>>
tables == <<users, problems, ratings>>
vars == <<users, problems, ratings, fetch_state, streaks, weekly_scores,
          submissions, last_ac, remote, pending, task, failures, prev, calls>>

\* polling_loop tasks: one per delivery of the gateway's READY event.
Loops == 1 .. (1 + MaxReconnects)

(***************************************************************************)
(* The submissions of the scenario: what the remote source may come to     *)
(* serve for user 1 (watermark INITIAL_FETCH_EPOCH = 1000, 1970-01-01 JST).*)
(***************************************************************************)
Entry(id, epoch, problem_id, result) ==
    [id |-> id, epoch_second |-> epoch, problem_id |-> problem_id, result |-> result]

sA == Entry(Some(11), 1500, Some("p1"), "AC")
\* same second as sA, smaller id
sB == Entry(Some(10), 1500, Some("p2"), "AC")
\* before the initial watermark, inside the lookback window
sC == Entry(Some(9), 500, Some("p2"), "AC")
\* the next JST day, the problem of sA again
sD == Entry(Some(12), 87900, Some("p1"), "AC")
\* three days after sA, a problem the catalog does not hold
sE == Entry(Some(13), 260700, Some("p3"), "AC")
\* exactly seven days after sA, the problem of sA again, in the next week
sF == Entry(Some(14), 606300, Some("p1"), "AC")
\* not accepted
sG == Entry(Some(15), 2000, Some("p1"), "WA")
\* no problem id
sH == Entry(Some(16), 2500, None, "AC")
\* no submission id
sI == Entry(None, 1500, Some("p3"), "AC")

Universe == {sA, sB, sC, sD, sE, sF, sG, sH, sI}

\* the day after sD, a problem the catalog does not hold
sJ == Entry(Some(17), 174300, Some("p4"), "AC")

(***************************************************************************)
(* poll_user: filter, order, watermark (src/main.py 443-481).              *)
(***************************************************************************)
\* The window starts at the watermark: no lookback.
window_start_no_lookback(last_epoch) == Max2(0, last_epoch)

\* Line 443: window_start = max(0, last_epoch - lookback_seconds).
window_start_of(last_epoch) == Max2(0, last_epoch - LOOKBACK_SECONDS)

\* What fetch_user_results returns: the v3 endpoint serves the results from
\* from_second on, the legacy endpoint every result.
fetch_user_results(u, endpoint, since_epoch) ==
    LET from_second == IF since_epoch > 0 THEN since_epoch ELSE 0
    IN  IF endpoint = "v3"
        THEN {r \in remote[u] : r.epoch_second >= from_second}
        ELSE remote[u]

\* Only what lies after the watermark is kept.
IsFilteredNewOnly(r, last_epoch, last_submission_id, window_start) ==
    /\ r.result = "AC"
    /\ ~(r.epoch_second < window_start)
    /\ \/ r.epoch_second > last_epoch
       \/ /\ r.epoch_second = last_epoch
          /\ last_submission_id # None
          /\ Truthy(r.id)
          /\ Val(r.id) > Val(last_submission_id)
       \/ /\ r.epoch_second = last_epoch
          /\ last_submission_id = None

\* The filter of lines 451-465: TRUE iff r is appended to `filtered`.
IsFiltered(r, last_epoch, last_submission_id, window_start) ==
    /\ r.result = "AC"
    /\ ~(r.epoch_second < window_start)
    /\ \/ r.epoch_second > last_epoch
       \/ /\ r.epoch_second = last_epoch
          /\ last_submission_id # None
          /\ Truthy(r.id)
          /\ Val(r.id) > Val(last_submission_id)
       \/ /\ r.epoch_second = last_epoch
          /\ last_submission_id = None
       \/ r.epoch_second < last_epoch

\* The sort key of line 466: (epoch_second, id or 0).
KeyLeq(a, b) ==
    \/ a.epoch_second < b.epoch_second
    \/ /\ a.epoch_second = b.epoch_second
       /\ OrZero(a.id) <= OrZero(b.id)

RECURSIVE SortByKey(_)
SortByKey(S) ==
    IF S = {} THEN << >>
    ELSE LET m == CHOOSE x \in S : \A y \in S : KeyLeq(x, y)
         IN  <<m>> \o SortByKey(S \ {m})

\* The watermark follows the entry handled last, without comparing.
AdvanceWatermarkLast(new_last_epoch, new_last_id, r) ==
    [epoch |-> r.epoch_second, id |-> r.id]

\* At an equal epoch the id is left as it is.
AdvanceWatermarkKeepId(new_last_epoch, new_last_id, r) ==
    IF r.epoch_second > new_last_epoch
    THEN [epoch |-> r.epoch_second, id |-> r.id]
    ELSE [epoch |-> new_last_epoch, id |-> new_last_id]

\* Lines 475-481: the running watermark after entry r has been handled.
AdvanceWatermark(new_last_epoch, new_last_id, r) ==
    IF r.epoch_second > new_last_epoch
    THEN [epoch |-> r.epoch_second, id |-> r.id]
    ELSE IF r.epoch_second = new_last_epoch /\ r.id # None
    THEN [epoch |-> new_last_epoch,
          id |-> Some(Max2(OrZero(new_last_id), Val(r.id)))]
    ELSE [epoch |-> new_last_epoch, id |-> new_last_id]

(***************************************************************************)
(* handle_ac: the credit decision (src/main.py 488-523).                   *)
(***************************************************************************)
\* The gate with a window of one day.
InCooldownOneDay(u, r) ==
    /\ <<u, Val(r.problem_id)>> \in DOMAIN last_ac
    /\ r.epoch_second - last_ac[<<u, Val(r.problem_id)>>] < DAY_SECONDS

\* The gate still closed at exactly the cooldown.
InCooldownInclusive(u, r) ==
    /\ <<u, Val(r.problem_id)>> \in DOMAIN last_ac
    /\ r.epoch_second - last_ac[<<u, Val(r.problem_id)>>] <= COOLDOWN_SECONDS

\* Lines 492-494: the cooldown gate on the stored LastAcceptance.
InCooldown(u, r) ==
    /\ <<u, Val(r.problem_id)>> \in DOMAIN last_ac
    /\ r.epoch_second - last_ac[<<u, Val(r.problem_id)>>] < COOLDOWN_SECONDS

\* Lines 488-494: TRUE iff handle_ac returns False without crediting r.
IsSkipped(u, r) ==
    \/ r.problem_id = None
    \/ InCooldown(u, r)

\* db.get_rating: 0 when the user has no rating row.
get_rating(u) == IF u \in DOMAIN ratings THEN ratings[u] ELSE 0

\* A problem without a difficulty is scored as one of difficulty 0.
ScoreBaseZeroDifficulty(u, p) ==
    base_score(get_rating(u),
               IF p \in DOMAIN problems /\ problems[p].difficulty # None
               THEN Val(problems[p].difficulty) ELSE 0)

\* Lines 495-506: the base score of problem p for user u.
ScoreBase(u, p) ==
    LET difficulty == IF p \in DOMAIN problems THEN problems[p].difficulty ELSE None
    IN  IF difficulty = None THEN FLAT_BASE_SCORE
        ELSE base_score(get_rating(u), Val(difficulty))

\* Every credit on the same day raises the streak again.
NewStreakSameDayCounts(current_streak, last_date, today) ==
    IF last_date = Some(today) \/ last_date = Some(today - 1)
    THEN current_streak + 1
    ELSE 1

\* A broken streak starts again from 0.
NewStreakFromZero(current_streak, last_date, today) ==
    IF last_date = Some(today) THEN current_streak
    ELSE IF last_date = Some(today - 1) THEN current_streak + 1
    ELSE 0

\* Lines 510-519: the new streak for an acceptance on JST day `today`.
NewStreak(current_streak, last_date, today) ==
    IF last_date = Some(today) THEN current_streak
    ELSE IF last_date = Some(today - 1) THEN current_streak + 1
    ELSE 1

(***************************************************************************)
(* src/db.py: the statements of the store's functions, on the tables.      *)
(* A week_start is the UTC instant week_start_jst returns (every caller    *)
(* passes one), so its ISO string is the key the instant is.               *)
(***************************************************************************)
\* str.strip() of an id, a sequence of characters.
RECURSIVE StripLeft(_)
StripLeft(id) ==
    IF id # << >> /\ Head(id) = " " THEN StripLeft(Tail(id)) ELSE id

RECURSIVE StripRight(_)
StripRight(id) ==
    IF id # << >> /\ id[Len(id)] = " "
    THEN StripRight(SubSeq(id, 1, Len(id) - 1)) ELSE id

Strip(id) == StripRight(StripLeft(id))

\* upsert_user, table users: insert, or on conflict set atcoder_id and
\* is_active = 1.
db_upsert_user(us, discord_id, atcoder_id) ==
    [u \in DOMAIN us \cup {discord_id} |->
        IF u = discord_id
        THEN [atcoder_id |-> Strip(atcoder_id), is_active |-> TRUE]
        ELSE us[u]]

\* On conflict the row is set back to the initial epoch.
db_upsert_user_fetch_state_resets(fs, discord_id) ==
    [u \in DOMAIN fs \cup {discord_id} |->
        IF u # discord_id THEN fs[u]
        ELSE [last_checked_epoch |-> INITIAL_FETCH_EPOCH, last_submission_id |-> None]]

\* upsert_user, table user_fetch_state: insert, on conflict do nothing.
db_upsert_user_fetch_state(fs, discord_id) ==
    [u \in DOMAIN fs \cup {discord_id} |->
        IF u \in DOMAIN fs THEN fs[u]
        ELSE [last_checked_epoch |-> INITIAL_FETCH_EPOCH, last_submission_id |-> None]]

\* upsert_user, table streaks: insert, on conflict do nothing.
db_upsert_user_streaks(st, discord_id) ==
    [u \in DOMAIN st \cup {discord_id} |->
        IF u \in DOMAIN st THEN st[u]
        ELSE [current_streak |-> 0, last_ac_date |-> None]]

\* init_db: update user_fetch_state set last_checked_epoch = the initial
\* epoch where last_checked_epoch = 0.
db_init_db(fs) ==
    [u \in DOMAIN fs |->
        IF fs[u].last_checked_epoch = 0
        THEN [fs[u] EXCEPT !.last_checked_epoch = INITIAL_FETCH_EPOCH]
        ELSE fs[u]]

\* The row is deleted.
db_deactivate_user_deletes(us, discord_id) ==
    [u \in DOMAIN us \ {discord_id} |-> us[u]]

\* deactivate_user: update users set is_active = 0.
db_deactivate_user(us, discord_id) ==
    [u \in DOMAIN us |->
        IF u = discord_id THEN [us[u] EXCEPT !.is_active = FALSE] ELSE us[u]]

\* get_active_users: the rows (discord_id, atcoder_id) with is_active = 1.
db_get_active_users(us) ==
    {[discord_id |-> u, atcoder_id |-> us[u].atcoder_id] :
        u \in {v \in DOMAIN us : us[v].is_active}}

\* The conflict clause replaces the score by the new delta.
db_add_weekly_score_overwrites(ws, week_start, discord_id, score_delta) ==
    [k \in DOMAIN ws \cup {<<week_start, discord_id>>} |->
        IF k = <<week_start, discord_id>> THEN score_delta ELSE ws[k]]

\* add_weekly_score: insert, or on conflict score = score + excluded.score.
db_add_weekly_score(ws, week_start, discord_id, score_delta) ==
    [k \in DOMAIN ws \cup {<<week_start, discord_id>>} |->
        IF k = <<week_start, discord_id>>
        THEN (IF k \in DOMAIN ws THEN ws[k] ELSE 0) + score_delta
        ELSE ws[k]]

\* get_weekly_score: the row's score, 0 without a row.
db_get_weekly_score(ws, week_start, discord_id) ==
    IF <<week_start, discord_id>> \in DOMAIN ws
    THEN ws[<<week_start, discord_id>>] ELSE 0

\* The entries of the history `calls`.
Call(op, args) == [op |-> op, args |-> args]
Returned(op, args, result) == [op |-> op, args |-> args, result |-> result]

(***************************************************************************)
(* polling_loop tasks.                                                     *)
(***************************************************************************)
\* fetch_user_results about to send its first request: the v3 endpoint, the
\* first candidate id, fetch_json's first attempt.
FirstRequest == [phase |-> "v3", candidate |-> 1, attempt |-> 1]

\* A task outside poll_user: position pc, users still to poll in this pass.
\* `credited` counts the entries of the cycle in progress for which a
\* submission record has been written.
IdleTask(pc, todo) ==
    [pc |-> pc, todo |-> todo, discord_id |-> 0, http |-> FirstRequest,
     last_epoch |-> 0, last_submission_id |-> None,
     results |-> {}, filtered |-> << >>, idx |-> 0,
     new_last_epoch |-> 0, new_last_id |-> None,
     score_base |-> 0, new_streak |-> 0, credited |-> 0]

\* The result the task is handling: r of `for r in filtered`.
Cur(l) == task[l].filtered[task[l].idx]

\* Positions inside poll_user, and inside handle_ac's persistence step.
CyclePcs == {"fetch", "handle", "update_streak", "insert_submission",
             "add_weekly_score", "upsert_last_ac", "notify", "update_fetch_state"}
PersistPcs == {"update_streak", "insert_submission", "add_weekly_score",
               "upsert_last_ac"}
InCycle(l) == task[l].pc \in CyclePcs

\* The record of a finished cycle.
Finished(l, outcome) ==
    [outcome |-> outcome,
     before |-> [last_checked_epoch |-> task[l].last_epoch,
                 last_submission_id |-> task[l].last_submission_id],
     results |-> IF task[l].pc = "fetch" THEN remote[task[l].discord_id]
                 ELSE task[l].results,
     filtered |-> {task[l].filtered[i] : i \in DOMAIN task[l].filtered}]

\* The exception leaves poll_all_users too: the pass ends with this user.
EndCycleAbortsPass(l, outcome) ==
    /\ task' = [task EXCEPT ![l] = IdleTask("next_user", << >>)]
    /\ prev' = [prev EXCEPT ![task[l].discord_id] = Finished(l, outcome)]

\* poll_user returns or raises: poll_all_users goes on to the next user.
EndCycle(l, outcome) ==
    /\ task' = [task EXCEPT ![l] = IdleTask("next_user", task[l].todo)]
    /\ prev' = [prev EXCEPT ![task[l].discord_id] = Finished(l, outcome)]

\* The active users in the order get_active_users returns them.
RECURSIVE SeqOfSet(_)
SeqOfSet(S) ==
    IF S = {} THEN << >>
    ELSE LET m == CHOOSE x \in S : \A y \in S : x <= y
         IN  <<m>> \o SeqOfSet(S \ {m})

get_active_users == SeqOfSet({u \in DOMAIN users : users[u].is_active})

\* polling_loop wakes up and poll_all_users reads the active users.
poll_all_users(l) ==
    /\ task[l].pc = "sleep"
    /\ task' = [task EXCEPT ![l] = IdleTask("next_user", get_active_users)]
    /\ UNCHANGED <<calls, tables, store, remote, pending, failures, prev>>

\* poll_all_users has polled every user: polling_loop sleeps.
pass_done(l) ==
    /\ task[l].pc = "next_user"
    /\ task[l].todo = << >>
    /\ task' = [task EXCEPT ![l] = IdleTask("sleep", << >>)]
    /\ UNCHANGED <<calls, tables, store, remote, pending, failures, prev>>

\* poll_all_users returns to polling_loop, which goes on to read the poll
\* interval (lines 322-327).
pass_returns(l) ==
    /\ task[l].pc = "next_user"
    /\ task[l].todo = << >>
    /\ task' = [task EXCEPT ![l] = IdleTask("get_settings", << >>)]
    /\ UNCHANGED <<calls, tables, store, remote, pending, failures, prev>>

\* db.get_active_users raises (line 429): polling_loop logs the exception
\* (lines 323-324) and goes on to read the poll interval.
get_active_users_error(l) ==
    /\ task[l].pc = "sleep"
    /\ failures < MaxFailures
    /\ failures' = failures + 1
    /\ task' = [task EXCEPT ![l] = IdleTask("get_settings", << >>)]
    /\ UNCHANGED <<calls, tables, store, remote, pending, prev>>

\* db.get_settings answers and polling_loop sleeps (lines 327-329).
get_settings(l) ==
    /\ task[l].pc = "get_settings"
    /\ task' = [task EXCEPT ![l] = IdleTask("sleep", << >>)]
    /\ UNCHANGED <<calls, tables, store, remote, pending, failures, prev>>

\* db.get_settings raises (line 327, outside the try of lines 320-324): the
\* exception leaves polling_loop and its task is done.
get_settings_error(l) ==
    /\ task[l].pc = "get_settings"
    /\ failures < MaxFailures
    /\ failures' = failures + 1
    /\ task' = [task EXCEPT ![l] = IdleTask("done", << >>)]
    /\ UNCHANGED <<calls, tables, store, remote, pending, prev>>

\* poll_user starts for the next user: get_fetch_state (lines 440-444).
poll_user(l) ==
    /\ task[l].pc = "next_user"
    /\ task[l].todo # << >>
    /\ LET u == Head(task[l].todo)
           state == IF u \in DOMAIN fetch_state THEN fetch_state[u]
                    ELSE [last_checked_epoch |-> INITIAL_FETCH_EPOCH,
                          last_submission_id |-> None]
       IN  task' = [task EXCEPT ![l] =
                [IdleTask("fetch", Tail(task[l].todo)) EXCEPT
                    !.discord_id = u,
                    !.last_epoch = state.last_checked_epoch,
                    !.last_submission_id = state.last_submission_id]]
    /\ UNCHANGED <<calls, tables, store, remote, pending, failures, prev>>

\* Lines 467-470: poll_user returns if `filtered` is empty, and starts the
\* loop over it otherwise.
AfterFilter(l, filtered) ==
    LET t == task[l]
        started == [t EXCEPT !.results = remote[t.discord_id],
                             !.filtered = filtered,
                             !.http = FirstRequest]
    IN  IF filtered = << >>
        THEN /\ task' = [task EXCEPT ![l] = IdleTask("next_user", t.todo)]
             /\ prev' = [prev EXCEPT ![t.discord_id] =
                    [outcome |-> "empty",
                     before |-> [last_checked_epoch |-> t.last_epoch,
                                 last_submission_id |-> t.last_submission_id],
                     results |-> remote[t.discord_id],
                     filtered |-> {}]]
        ELSE /\ task' = [task EXCEPT ![l] =
                    [started EXCEPT !.pc = "handle", !.idx = 1,
                                    !.new_last_epoch = t.last_epoch,
                                    !.new_last_id = t.last_submission_id]]
             /\ UNCHANGED prev

\* fetch_user_results has returned the list `results`: it is filtered and
\* ordered (lines 450-470).
AfterFetch(l, results) ==
    AfterFilter(l, SortByKey({r \in results :
                    IsFiltered(r, task[l].last_epoch, task[l].last_submission_id,
                               window_start_of(task[l].last_epoch))}))

\* The cycle stores its window start as last_checked_epoch after the fetch.
fetch_ok_stores_window(l) ==
    /\ task[l].pc = "fetch"
    /\ \E endpoint \in {"v3", "legacy"} :
        AfterFetch(l, fetch_user_results(task[l].discord_id, endpoint,
                                         window_start_of(task[l].last_epoch)))
    /\ fetch_state' = [fetch_state EXCEPT ![task[l].discord_id].last_checked_epoch =
            window_start_of(task[l].last_epoch)]
    /\ UNCHANGED <<calls, tables, streaks, weekly_scores, submissions, last_ac,
                   remote, pending, failures>>

\* fetch_user_results answers with what one of the endpoints serves
\* (lines 446-470).
fetch_ok(l) ==
    /\ task[l].pc = "fetch"
    /\ \E endpoint \in {"v3", "legacy"} :
        AfterFetch(l, fetch_user_results(task[l].discord_id, endpoint,
                                         window_start_of(task[l].last_epoch)))
    /\ UNCHANGED <<calls, tables, store, remote, pending, failures>>

\* The results as a list, in the order the remote source returns them.
\* Lines 450-465: the filter keeps that order.
FilterList(l, order) ==
    SelectSeq(order, LAMBDA r :
        IsFiltered(r, task[l].last_epoch, task[l].last_submission_id,
                   window_start_of(task[l].last_epoch)))

\* list.sort is stable: r goes behind every entry whose key is not greater.
RECURSIVE InsertByKey(_, _)
InsertByKey(sorted, r) ==
    IF sorted = << >> THEN <<r>>
    ELSE IF KeyLeq(sorted[Len(sorted)], r) THEN Append(sorted, r)
    ELSE Append(InsertByKey(SubSeq(sorted, 1, Len(sorted) - 1), r),
                sorted[Len(sorted)])

\* Line 466: filtered.sort(key=(epoch_second, id or 0)).
RECURSIVE sort(_)
sort(list) ==
    IF list = << >> THEN << >>
    ELSE InsertByKey(sort(SubSeq(list, 1, Len(list) - 1)), list[Len(list)])

\* The orders in which the results S can be listed.
Orderings(S) ==
    {order \in [1 .. Cardinality(S) -> S] :
        \A i, j \in DOMAIN order : order[i] = order[j] => i = j}

\* The filtered entries are handled in the order of the response.
fetch_ok_listed_unsorted(l) ==
    /\ task[l].pc = "fetch"
    /\ \E endpoint \in {"v3", "legacy"} :
        \E order \in Orderings(fetch_user_results(task[l].discord_id, endpoint,
                                    window_start_of(task[l].last_epoch))) :
            /\ AfterFilter(l, FilterList(l, order))
            /\ calls' = << Returned("fetch_user_results", <<task[l].discord_id>>, order) >>
    /\ UNCHANGED <<tables, store, remote, pending, failures>>

\* fetch_user_results answers with what one of the endpoints serves, listed
\* in some order (lines 446-470).
fetch_ok_listed(l) ==
    /\ task[l].pc = "fetch"
    /\ \E endpoint \in {"v3", "legacy"} :
        \E order \in Orderings(fetch_user_results(task[l].discord_id, endpoint,
                                    window_start_of(task[l].last_epoch))) :
            /\ AfterFilter(l, sort(FilterList(l, order)))
            /\ calls' = << Returned("fetch_user_results", <<task[l].discord_id>>, order) >>
    /\ UNCHANGED <<tables, store, remote, pending, failures>>

\* The handler stores the window start as the new watermark before returning.
fetch_error_rewinds(l) ==
    /\ task[l].pc = "fetch"
    /\ failures < MaxFailures
    /\ failures' = failures + 1
    /\ fetch_state' = [fetch_state EXCEPT ![task[l].discord_id].last_checked_epoch =
            Max2(0, task[l].last_epoch - LOOKBACK_SECONDS)]
    /\ EndCycle(l, "fetch_error")
    /\ UNCHANGED <<calls, tables, streaks, weekly_scores, submissions, last_ac, remote, pending>>

\* fetch_user_results raises: poll_user logs and returns (lines 447-449).
fetch_error(l) ==
    /\ task[l].pc = "fetch"
    /\ failures < MaxFailures
    /\ failures' = failures + 1
    /\ EndCycle(l, "fetch_error")
    /\ UNCHANGED <<calls, tables, store, remote, pending>>

\* Every attempt of fetch_json met a transient HTTP status: its loop ends and
\* it returns None, and `for r in results` raises TypeError (line 451).
fetch_none(l) ==
    /\ task[l].pc = "fetch"
    /\ failures < MaxFailures
    /\ failures' = failures + 1
    /\ EndCycle(l, "fetch_none")
    /\ UNCHANGED <<calls, tables, store, remote, pending>>

\* The running watermark moves only past an entry that handle_ac credited.
AdvancedCreditedOnly(l) ==
    LET t == task[l]
        w == IF t.pc = "notify"
             THEN AdvanceWatermark(t.new_last_epoch, t.new_last_id, Cur(l))
             ELSE [epoch |-> t.new_last_epoch, id |-> t.new_last_id]
    IN  [t EXCEPT !.new_last_epoch = w.epoch,
                  !.new_last_id = w.id,
                  !.idx = t.idx + 1,
                  !.score_base = 0,
                  !.new_streak = 0,
                  !.pc = IF t.idx + 1 > Len(t.filtered)
                         THEN "update_fetch_state" ELSE "handle"]

\* Lines 475-481 after handle_ac has returned, and the loop's next step.
Advanced(l) ==
    LET t == task[l]
        w == AdvanceWatermark(t.new_last_epoch, t.new_last_id, Cur(l))
    IN  [t EXCEPT !.new_last_epoch = w.epoch,
                  !.new_last_id = w.id,
                  !.idx = t.idx + 1,
                  !.score_base = 0,
                  !.new_streak = 0,
                  !.pc = IF t.idx + 1 > Len(t.filtered)
                         THEN "update_fetch_state" ELSE "handle"]

\* handle_ac up to the first write: the credit decision (lines 488-519).
handle_ac(l) ==
    /\ task[l].pc = "handle"
    /\ LET u == task[l].discord_id
           r == Cur(l)
           streak_info == IF u \in DOMAIN streaks THEN streaks[u]
                          ELSE [current_streak |-> 0, last_ac_date |-> None]
       IN  IF IsSkipped(u, r)
           THEN task' = [task EXCEPT ![l] = Advanced(l)]
           ELSE task' = [task EXCEPT ![l] =
                    [task[l] EXCEPT
                        !.pc = "update_streak",
                        !.score_base = ScoreBase(u, Val(r.problem_id)),
                        !.new_streak = NewStreak(streak_info.current_streak,
                                                 streak_info.last_ac_date,
                                                 JstDate(r.epoch_second))]]
    /\ UNCHANGED <<calls, tables, store, remote, pending, failures, prev>>

\* db.update_streak (line 520).
update_streak(l) ==
    /\ task[l].pc = "update_streak"
    /\ streaks' = [u \in DOMAIN streaks \cup {task[l].discord_id} |->
            IF u = task[l].discord_id
            THEN [current_streak |-> task[l].new_streak,
                  last_ac_date |-> Some(JstDate(Cur(l).epoch_second))]
            ELSE streaks[u]]
    /\ task' = [task EXCEPT ![l].pc = "insert_submission"]
    /\ UNCHANGED <<calls, tables, fetch_state, weekly_scores, submissions, last_ac,
                   remote, pending, failures, prev>>

\* db.insert_submission (line 526).
insert_submission(l) ==
    /\ task[l].pc = "insert_submission"
    /\ submissions' = Append(submissions,
            [discord_id |-> task[l].discord_id,
             problem_id |-> Val(Cur(l).problem_id),
             submitted_at |-> Cur(l).epoch_second,
             score_base |-> task[l].score_base,
             streak_mult |-> streak_multiplier(task[l].new_streak),
             score_final |-> final_score(task[l].score_base, task[l].new_streak)])
    /\ task' = [task EXCEPT ![l].pc = "add_weekly_score",
                            ![l].credited = @ + 1]
    /\ UNCHANGED <<calls, tables, fetch_state, streaks, weekly_scores, last_ac,
                   remote, pending, failures, prev>>

\* The score goes to the week of the newest entry the cycle has fetched.
add_weekly_score_newest_week(l) ==
    /\ task[l].pc = "add_weekly_score"
    /\ weekly_scores' = db_add_weekly_score(weekly_scores,
            week_start_jst(task[l].filtered[Len(task[l].filtered)].epoch_second),
            task[l].discord_id,
            final_score(task[l].score_base, task[l].new_streak))
    /\ task' = [task EXCEPT ![l].pc = "upsert_last_ac"]
    /\ UNCHANGED <<calls, tables, fetch_state, streaks, submissions, last_ac,
                   remote, pending, failures, prev>>

add_weekly_score_week_before(l) ==
    /\ task[l].pc = "add_weekly_score"
    /\ weekly_scores' = db_add_weekly_score(weekly_scores,
            week_start_jst(Cur(l).epoch_second) - 604800, task[l].discord_id,
            final_score(task[l].score_base, task[l].new_streak))
    /\ task' = [task EXCEPT ![l].pc = "upsert_last_ac"]
    /\ UNCHANGED <<calls, tables, fetch_state, streaks, submissions, last_ac,
                   remote, pending, failures, prev>>

\* db.add_weekly_score (line 527).
add_weekly_score(l) ==
    /\ task[l].pc = "add_weekly_score"
    /\ weekly_scores' = db_add_weekly_score(weekly_scores,
            week_start_jst(Cur(l).epoch_second), task[l].discord_id,
            final_score(task[l].score_base, task[l].new_streak))
    /\ task' = [task EXCEPT ![l].pc = "upsert_last_ac"]
    /\ UNCHANGED <<calls, tables, fetch_state, streaks, submissions, last_ac,
                   remote, pending, failures, prev>>

\* An existing LastAcceptance row is left as it is (insert or ignore).
upsert_last_ac_keeps_first(l) ==
    /\ task[l].pc = "upsert_last_ac"
    /\ LET key == <<task[l].discord_id, Val(Cur(l).problem_id)>>
       IN  last_ac' = [k \in DOMAIN last_ac \cup {key} |->
                IF k \in DOMAIN last_ac THEN last_ac[k] ELSE Cur(l).epoch_second]
    /\ task' = [task EXCEPT ![l].pc = "notify"]
    /\ UNCHANGED <<calls, tables, fetch_state, streaks, weekly_scores, submissions,
                   remote, pending, failures, prev>>

\* db.upsert_last_ac (line 528).
upsert_last_ac(l) ==
    /\ task[l].pc = "upsert_last_ac"
    /\ LET key == <<task[l].discord_id, Val(Cur(l).problem_id)>>
       IN  last_ac' = [k \in DOMAIN last_ac \cup {key} |->
                IF k = key THEN Cur(l).epoch_second ELSE last_ac[k]]
    /\ task' = [task EXCEPT ![l].pc = "notify"]
    /\ UNCHANGED <<calls, tables, fetch_state, streaks, weekly_scores, submissions,
                   remote, pending, failures, prev>>

\* The side effects of lines 530-552 succeed; handle_ac returns True.
notify_ok(l) ==
    /\ task[l].pc = "notify"
    /\ task' = [task EXCEPT ![l] = Advanced(l)]
    /\ UNCHANGED <<calls, tables, store, remote, pending, failures, prev>>

\* One of them raises (channel.send and add_roles catch discord.Forbidden
\* only): the exception leaves handle_ac and poll_user.
notify_error(l) ==
    /\ task[l].pc = "notify"
    /\ failures < MaxFailures
    /\ failures' = failures + 1
    /\ EndCycle(l, "notify_error")
    /\ UNCHANGED <<calls, tables, store, remote, pending>>

\* The failed write is logged and the loop goes on with the next entry.
store_error_skips_entry(l) ==
    /\ task[l].pc \in PersistPcs
    /\ failures < MaxFailures
    /\ failures' = failures + 1
    /\ task' = [task EXCEPT ![l] = Advanced(l)]
    /\ UNCHANGED <<calls, tables, store, remote, pending, prev>>

\* A store write raises (or the process dies there): the exception leaves
\* poll_user before the write at the task's position has stored anything.
store_error(l) ==
    /\ task[l].pc \in PersistPcs \cup {"update_fetch_state"}
    /\ failures < MaxFailures
    /\ failures' = failures + 1
    /\ EndCycle(l, "store_error")
    /\ UNCHANGED <<calls, tables, store, remote, pending>>

\* db.update_fetch_state (line 482): the watermark is stored, once per cycle.
update_fetch_state(l) ==
    /\ task[l].pc = "update_fetch_state"
    /\ fetch_state' = [u \in DOMAIN fetch_state \cup {task[l].discord_id} |->
            IF u = task[l].discord_id
            THEN [last_checked_epoch |-> task[l].new_last_epoch,
                  last_submission_id |-> task[l].new_last_id]
            ELSE fetch_state[u]]
    /\ EndCycle(l, "done")
    /\ UNCHANGED <<calls, tables, streaks, weekly_scores, submissions, last_ac,
                   remote, pending, failures>>

\* The remote source starts serving one more submission of user u. Only
\* fetch_user_results reads the remote source, so a submission that becomes
\* visible at any other moment is one that becomes visible just before the
\* next fetch: the step is taken while a task is about to fetch.
remote_submit(u) ==
    /\ \E l \in Loops : task[l].pc = "fetch"
    /\ Cardinality(remote[u]) < MaxSubs
    /\ \E e \in pending[u] :
        /\ remote' = [remote EXCEPT ![u] = @ \cup {e}]
        /\ pending' = [pending EXCEPT ![u] = @ \ {e}]
    /\ UNCHANGED <<calls, tables, store, task, failures, prev>>

\* on_ready runs again after a reconnect (lines 107-140): init_db, then one
\* more polling_loop task.
on_ready(l) ==
    /\ task[l].pc = "none"
    /\ \A k \in Loops : k < l => task[k].pc # "none"
    /\ fetch_state' = [u \in DOMAIN fetch_state |->
            IF fetch_state[u].last_checked_epoch = 0
            THEN [fetch_state[u] EXCEPT !.last_checked_epoch = INITIAL_FETCH_EPOCH]
            ELSE fetch_state[u]]
    /\ task' = [task EXCEPT ![l] = IdleTask("sleep", << >>)]
    /\ UNCHANGED <<calls, tables, streaks, weekly_scores, submissions, last_ac,
                   remote, pending, failures, prev>>

(***************************************************************************)
(* src/atcoder_api.py: fetch_user_results and fetch_json, request by        *)
(* request. An id is a sequence of characters over {"A", "B", "a", "b"}.    *)
(***************************************************************************)
\* str.lower().
Lower(c) == IF c = "A" THEN "a" ELSE IF c = "B" THEN "b" ELSE c
LowerId(id) == [i \in DOMAIN id |-> Lower(id[i])]

\* Lines 59-63: the id as given, then its lower-cased form if it differs.
Candidates(atcoder_id) ==
    LET raw == Strip(atcoder_id)
        lower == LowerId(raw)
    IN  IF lower # raw THEN <<raw, lower>> ELSE <<raw>>

\* What one HTTP attempt may meet: 200 with a JSON body; 404; 400, 401 or
\* 403; 429, 500, 502, 503 or 504; a timeout, a connection error or any
\* other status raise_for_status raises on.
Responses == {"ok", "not_found", "refused", "transient_status", "transient_error"}

\* A 404 is retried like a connection error.
fetch_json_retries_not_found(attempt, response) ==
    IF response = "ok" THEN "return_json"
    ELSE IF response = "transient_status"
    THEN (IF attempt < RETRIES THEN "retry" ELSE "return_none")
    ELSE IF response = "refused" THEN "raise"
    ELSE IF attempt = RETRIES
    THEN (IF response = "not_found" THEN "raise_404" ELSE "raise")
    ELSE "retry"

\* fetch_json (lines 16-41): what attempt number `attempt` of the loop does
\* with the response it meets. After the last attempt a transient status
\* leaves the loop, and the function returns None.
fetch_json(attempt, response) ==
    IF response = "ok" THEN "return_json"
    ELSE IF response = "transient_status"
    THEN (IF attempt < RETRIES THEN "retry" ELSE "return_none")
    ELSE IF response = "not_found" THEN "raise_404"
    ELSE IF response = "refused" THEN "raise"
    ELSE IF attempt = RETRIES THEN "raise"
    ELSE "retry"

\* One HTTP attempt of the fetch of task l's cycle meets `response`
\* (atcoder_api.py 64-87 around fetch_json, main.py 445-451 around that).
http_get(l, response) ==
    /\ task[l].pc = "fetch"
    /\ LET t == task[l]
           u == t.discord_id
           h == t.http
           candidates == Candidates(users[u].atcoder_id)
           outcome == fetch_json(h.attempt, response)
           request == Returned("GET", <<h.phase, candidates[h.candidate], h.attempt>>,
                               response)
       IN  /\ calls' = IF h = FirstRequest THEN <<request>> ELSE Append(calls, request)
           /\ CASE outcome = "retry" ->
                    /\ task' = [task EXCEPT ![l].http.attempt = @ + 1]
                    /\ UNCHANGED prev
                [] outcome = "return_json" ->
                    AfterFetch(l, fetch_user_results(u, h.phase,
                                                     window_start_of(t.last_epoch)))
                [] outcome = "return_none" ->
                    EndCycle(l, "fetch_none")
                [] outcome = "raise" ->
                    EndCycle(l, "fetch_error")
                [] outcome = "raise_404" ->
                    IF h.candidate < Len(candidates)
                    THEN /\ task' = [task EXCEPT ![l].http =
                                [h EXCEPT !.candidate = @ + 1, !.attempt = 1]]
                         /\ UNCHANGED prev
                    ELSE IF h.phase = "v3"
                    THEN /\ task' = [task EXCEPT ![l].http =
                                [phase |-> "legacy", candidate |-> 1, attempt |-> 1]]
                         /\ UNCHANGED prev
                    ELSE AfterFetch(l, {})
    /\ UNCHANGED <<tables, store, remote, pending, failures>>

(***************************************************************************)
(* sync_problems (src/main.py 163-232) on JSON payloads. A number stands    *)
(* for a raw difficulty, counted in halves.                                 *)
(***************************************************************************)
JStr(v) == [kind |-> "str", value |-> v]
JNum(k) == [kind |-> "num", halves |-> k]
JNull == [kind |-> "null"]
JList(items) == [kind |-> "list", items |-> items]
JDict(fields) == [kind |-> "dict", fields |-> fields]
\* The fetch raised instead of returning a payload.
Raised == [kind |-> "error"]

\* dict.get(key).
Get(d, key) == IF key \in DOMAIN d.fields THEN d.fields[key] ELSE JNull

\* Lines 179-183: model_map of a dict mapping problem ids to model objects
\* or numbers.
ModelMapOfMapping(d) ==
    [pid \in {k \in DOMAIN d.fields : d.fields[k].kind \in {"dict", "num"}} |->
        IF d.fields[pid].kind = "dict" THEN Get(d.fields[pid], "difficulty")
        ELSE d.fields[pid]]

\* Lines 200-206: model_map of a list of model objects; a later object of
\* the same problem replaces an earlier one.
ModelMapOfList(items) ==
    LET named == {i \in DOMAIN items :
                    /\ items[i].kind = "dict"
                    /\ Get(items[i], "problem_id").kind = "str"}
        last(pid) == CHOOSE i \in named :
                        /\ Get(items[i], "problem_id").value = pid
                        /\ \A j \in named :
                                Get(items[j], "problem_id").value = pid => j <= i
    IN  [pid \in {Get(items[i], "problem_id").value : i \in named} |->
            Get(items[last(pid)], "difficulty")]

\* A mapping from which nothing was extracted is read as an empty list.
ModelMapLenient(models) ==
    LET keyed == models.kind = "dict"
        inner == IF keyed /\ "models" \in DOMAIN models.fields THEN models.fields["models"]
                 ELSE IF keyed /\ "data" \in DOMAIN models.fields THEN models.fields["data"]
                 ELSE models
    IN  IF keyed /\ inner = models
        THEN Some(ModelMapOfMapping(models))
        ELSE IF inner.kind = "list" THEN Some(ModelMapOfList(inner.items))
        ELSE None

\* Lines 171-206: model_map, or None where sync_problems logs the payload as
\* unexpected and returns.
ModelMap(models) ==
    LET keyed == models.kind = "dict"
        inner == IF keyed /\ "models" \in DOMAIN models.fields THEN models.fields["models"]
                 ELSE IF keyed /\ "data" \in DOMAIN models.fields THEN models.fields["data"]
                 ELSE models
    IN  IF keyed /\ inner = models
        THEN (IF DOMAIN ModelMapOfMapping(models) # {}
              THEN Some(ModelMapOfMapping(models)) ELSE None)
        ELSE IF inner.kind = "list" THEN Some(ModelMapOfList(inner.items))
        ELSE None

\* Lines 212-227: the rows to upsert, problem_id -> difficulty.
Payload(model_map, items) ==
    LET id(p) == IF Get(p, "id").kind = "str" THEN Get(p, "id")
                 ELSE Get(p, "problem_id")
        named == {i \in DOMAIN items : id(items[i]).kind = "str"}
    IN  [pid \in {id(items[i]).value : i \in named} |->
            LET raw == IF pid \in DOMAIN model_map THEN model_map[pid] ELSE JNull
            IN  IF raw.kind = "null" THEN None
                ELSE Some(display_difficulty(raw.halves))]

\* db.upsert_problems: insert, or on conflict replace the row.
db_upsert_problems(catalog, payload) ==
    [p \in DOMAIN catalog \cup DOMAIN payload |->
        IF p \in DOMAIN payload THEN [difficulty |-> payload[p]] ELSE catalog[p]]

\* sync_problems: whether upsert_problems was called, and the catalog after.
\* A problems payload of None fails at `for p in problems` (line 213).
sync_problems(catalog, models, problem_list) ==
    IF \/ models.kind = "error"
       \/ ModelMap(models) = None
       \/ problem_list.kind # "list"
    THEN [upserted |-> FALSE, problems |-> catalog]
    ELSE [upserted |-> TRUE,
          problems |-> db_upsert_problems(catalog,
                            Payload(Val(ModelMap(models)), problem_list.items))]

(***************************************************************************)
(* Specifications.                                                         *)
(***************************************************************************)
NoCycle ==
    [outcome |-> "none",
     before |-> [last_checked_epoch |-> 0, last_submission_id |-> None],
     results |-> {}, filtered |-> {}]

\* The users of pending0 are registered and active (ratings0 holds the rating
\* rows, problems0 the catalog); the bot is ready and its polling_loop task
\* sleeps.
InitOf(ratings0, problems0, streaks0, pending0) ==
    /\ users = [u \in DOMAIN pending0 |->
            [atcoder_id |-> IF u = 1 THEN "alice" ELSE "bob", is_active |-> TRUE]]
    /\ problems = problems0
    /\ ratings = ratings0
    /\ fetch_state = [u \in DOMAIN pending0 |->
            [last_checked_epoch |-> INITIAL_FETCH_EPOCH, last_submission_id |-> None]]
    /\ streaks = streaks0
    /\ weekly_scores = << >>
    /\ submissions = << >>
    /\ last_ac = << >>
    /\ remote = [u \in DOMAIN pending0 |-> {}]
    /\ pending = pending0
    /\ task = [l \in Loops |-> IdleTask(IF l = 1 THEN "sleep" ELSE "none", << >>)]
    /\ failures = 0
    /\ prev = [u \in DOMAIN pending0 |-> NoCycle]
    /\ calls = << >>

\* User 1 is registered with rating 1000; the catalog holds p1 and p2.
InitWith(universe) ==
    InitOf([u \in {1} |-> 1000],
           [p \in {"p1", "p2"} |->
                [difficulty |-> IF p = "p1" THEN Some(1000) ELSE Some(1200)]],
           [u \in {1} |-> [current_streak |-> 0, last_ac_date |-> None]],
           [u \in {1} |-> universe])

Init == InitWith(Universe)

Step(l) ==
    \/ poll_all_users(l)
    \/ pass_done(l)
    \/ poll_user(l)
    \/ fetch_ok(l)
    \/ fetch_error(l)
    \/ fetch_none(l)
    \/ handle_ac(l)
    \/ update_streak(l)
    \/ insert_submission(l)
    \/ add_weekly_score(l)
    \/ upsert_last_ac(l)
    \/ notify_ok(l)
    \/ notify_error(l)
    \/ store_error(l)
    \/ update_fetch_state(l)

Next ==
    \/ \E l \in Loops : Step(l)
    \/ \E u \in DOMAIN remote : remote_submit(u)

\* One gateway session: on_ready runs once, one polling_loop task.
Spec == Init /\ [][Next]_vars

\* The gateway session may be lost and READY delivered again.
NextReconnect ==
    \/ Next
    \/ \E l \in Loops : on_ready(l)

\* Two submissions of one problem on consecutive days suffice there.
InitReconnect == InitWith({sA, sD})

SpecReconnect == InitReconnect /\ [][NextReconnect]_vars

\* Two users: user 1 (rating 1000, no streak) and user 2 (no rating row yet,
\* a streak of 6 up to 1970-01-01 JST); the catalog also holds p3, without a
\* difficulty, and does not hold p4.
InitTwoUsers ==
    InitOf([u \in {1} |-> 1000],
           [p \in {"p1", "p2", "p3"} |->
                [difficulty |-> IF p = "p1" THEN Some(1000)
                                ELSE IF p = "p2" THEN Some(1200) ELSE None]],
           [u \in {1, 2} |->
                IF u = 1 THEN [current_streak |-> 0, last_ac_date |-> None]
                ELSE [current_streak |-> 6, last_ac_date |-> Some(0)]],
           [u \in {1, 2} |-> IF u = 1 THEN {sA, sE} ELSE {sD, sJ}])

SpecTwoUsers == InitTwoUsers /\ [][Next]_vars

\* Two users and two weeks: user 1 makes sA and, a week later, sF visible,
\* user 2 sD.
InitWeeks ==
    InitOf([u \in {1, 2} |-> 1000],
           [p \in {"p1"} |-> [difficulty |-> Some(1000)]],
           [u \in {1, 2} |-> [current_streak |-> 0, last_ac_date |-> None]],
           [u \in {1, 2} |-> IF u = 1 THEN {sA, sF} ELSE {sD}])

SpecWeeks == InitWeeks /\ [][Next]_vars

\* The fetch request by request: user 1 is registered as "Ab" (rating 1000)
\* and makes sA visible.
InitHttp ==
    /\ users = [u \in {1} |-> [atcoder_id |-> <<"A", "b">>, is_active |-> TRUE]]
    /\ problems = [p \in {"p1"} |-> [difficulty |-> Some(1000)]]
    /\ ratings = [u \in {1} |-> 1000]
    /\ fetch_state = [u \in {1} |->
            [last_checked_epoch |-> INITIAL_FETCH_EPOCH, last_submission_id |-> None]]
    /\ streaks = [u \in {1} |-> [current_streak |-> 0, last_ac_date |-> None]]
    /\ weekly_scores = << >>
    /\ submissions = << >>
    /\ last_ac = << >>
    /\ remote = [u \in {1} |-> {}]
    /\ pending = [u \in {1} |-> {sA}]
    /\ task = [l \in Loops |-> IdleTask(IF l = 1 THEN "sleep" ELSE "none", << >>)]
    /\ failures = 0
    /\ prev = [u \in {1} |-> NoCycle]
    /\ calls = << >>

StepHttp(l) ==
    \/ poll_all_users(l)
    \/ pass_done(l)
    \/ poll_user(l)
    \/ \E response \in Responses : http_get(l, response)
    \/ handle_ac(l)
    \/ update_streak(l)
    \/ insert_submission(l)
    \/ add_weekly_score(l)
    \/ upsert_last_ac(l)
    \/ notify_ok(l)
    \/ notify_error(l)
    \/ store_error(l)
    \/ update_fetch_state(l)

NextHttp ==
    \/ \E l \in Loops : StepHttp(l)
    \/ \E u \in DOMAIN remote : remote_submit(u)

SpecHttp == InitHttp /\ [][NextHttp]_vars

\* The response as a list: user 1 makes sA, sB and sI visible (one second,
\* ids 11, 10 and none) and sC (older).
InitOrder == InitWith({sA, sB, sC, sI})

\* The steps of a cycle that no exception ends.
StepOrder(l) ==
    \/ poll_all_users(l)
    \/ pass_done(l)
    \/ poll_user(l)
    \/ fetch_ok_listed(l)
    \/ handle_ac(l)
    \/ update_streak(l)
    \/ insert_submission(l)
    \/ add_weekly_score(l)
    \/ upsert_last_ac(l)
    \/ notify_ok(l)
    \/ update_fetch_state(l)

NextOrder ==
    \/ \E l \in Loops : StepOrder(l)
    \/ \E u \in DOMAIN remote : remote_submit(u)

SpecOrder == InitOrder /\ [][NextOrder]_vars

\* polling_loop statement by statement, over two users: user 1 makes sA
\* visible, user 2 sD.
InitLoop ==
    InitOf([u \in {1, 2} |-> 1000],
           [p \in {"p1"} |-> [difficulty |-> Some(1000)]],
           [u \in {1, 2} |-> [current_streak |-> 0, last_ac_date |-> None]],
           [u \in {1, 2} |-> IF u = 1 THEN {sA} ELSE {sD}])

StepLoop(l) ==
    \/ poll_all_users(l)
    \/ get_active_users_error(l)
    \/ pass_returns(l)
    \/ get_settings(l)
    \/ get_settings_error(l)
    \/ poll_user(l)
    \/ fetch_ok(l)
    \/ fetch_error(l)
    \/ fetch_none(l)
    \/ handle_ac(l)
    \/ update_streak(l)
    \/ insert_submission(l)
    \/ add_weekly_score(l)
    \/ upsert_last_ac(l)
    \/ notify_ok(l)
    \/ notify_error(l)
    \/ store_error(l)
    \/ update_fetch_state(l)

NextLoop ==
    \/ \E l \in Loops : StepLoop(l)
    \/ \E u \in DOMAIN remote : remote_submit(u)

\* The event loop resumes a polling_loop task whenever it can go on.
SpecLoop == InitLoop /\ [][NextLoop]_vars /\ WF_vars(\E l \in Loops : StepLoop(l))

(***************************************************************************)
(* The store's functions called directly, on an empty store.               *)
(***************************************************************************)
InitEmpty ==
    /\ users = << >>
    /\ problems = << >>
    /\ ratings = << >>
    /\ fetch_state = << >>
    /\ streaks = << >>
    /\ weekly_scores = << >>
    /\ submissions = << >>
    /\ last_ac = << >>
    /\ remote = << >>
    /\ pending = << >>
    /\ task = [l \in Loops |-> IdleTask("none", << >>)]
    /\ failures = 0
    /\ prev = << >>
    /\ calls = << >>

\* Two weeks (1969-12-29 and 1970-01-05, 07:00 JST), two users, three deltas.
WeekStarts == {-266400, 338400}
UserIds == {1, 2}
ScoreDeltas == {50, 100, 262}

call_add_weekly_score(week_start, discord_id, score_delta) ==
    /\ Len(calls) < MaxCalls
    /\ weekly_scores' = db_add_weekly_score(weekly_scores, week_start,
                                            discord_id, score_delta)
    /\ calls' = Append(calls, Call("add_weekly_score",
                                   <<week_start, discord_id, score_delta>>))
    /\ UNCHANGED <<tables, fetch_state, streaks, submissions, last_ac,
                   remote, pending, task, failures, prev>>

NextWeekly ==
    \E w \in WeekStarts, u \in UserIds, d \in ScoreDeltas :
        call_add_weekly_score(w, u, d)

SpecWeekly == InitEmpty /\ [][NextWeekly]_vars

\* /register and /unregister on a store that holds user 1, registered as
\* "a", with one credited acceptance (sA).
InitUsers ==
    /\ users = [u \in {1} |-> [atcoder_id |-> <<"a">>, is_active |-> TRUE]]
    /\ problems = [p \in {"p1"} |-> [difficulty |-> Some(1000)]]
    /\ ratings = [u \in {1} |-> 1000]
    /\ fetch_state = [u \in {1} |->
            [last_checked_epoch |-> 1500, last_submission_id |-> Some(11)]]
    /\ streaks = [u \in {1} |-> [current_streak |-> 1, last_ac_date |-> Some(0)]]
    /\ weekly_scores = [k \in {<<-266400, 1>>} |-> 262]
    /\ submissions = << [discord_id |-> 1, problem_id |-> "p1",
                         submitted_at |-> 1500, score_base |-> 250,
                         streak_mult |-> 105, score_final |-> 262] >>
    /\ last_ac = [k \in {<<1, "p1">>} |-> 1500]
    /\ remote = << >>
    /\ pending = << >>
    /\ task = [l \in Loops |-> IdleTask("none", << >>)]
    /\ failures = 0
    /\ prev = << >>
    /\ calls = << Call("upsert_user", <<1, <<"a">>>>) >>

\* What a user may type as the AtCoder ID.
TypedIds ==
    {<<"a">>, <<"b">>, <<"a", "b">>, <<" ", "a", " ">>, <<"b", " ">>,
     <<"a", " ", "b">>}

\* The register command (main.py 1244-1245) and upsert_user.
call_upsert_user(discord_id, typed) ==
    /\ Len(calls) < MaxCalls
    /\ LET normalized == Strip(typed)
       IN  /\ users' = db_upsert_user(users, discord_id, normalized)
           /\ calls' = Append(calls, Call("upsert_user", <<discord_id, normalized>>))
    /\ fetch_state' = db_upsert_user_fetch_state(fetch_state, discord_id)
    /\ streaks' = db_upsert_user_streaks(streaks, discord_id)
    /\ UNCHANGED <<problems, ratings, weekly_scores, submissions, last_ac,
                   remote, pending, task, failures, prev>>

\* The unregister command (main.py 1268) and deactivate_user.
call_deactivate_user(discord_id) ==
    /\ Len(calls) < MaxCalls
    /\ users' = db_deactivate_user(users, discord_id)
    /\ calls' = Append(calls, Call("deactivate_user", <<discord_id>>))
    /\ UNCHANGED <<problems, ratings, store, remote, pending, task, failures, prev>>

NextUsers ==
    \/ \E u \in UserIds, typed \in TypedIds : call_upsert_user(u, typed)
    \/ \E u \in UserIds : call_deactivate_user(u)

SpecUsers == InitUsers /\ [][NextUsers]_vars

\* Polling, /register, /unregister and bot start-ups together: user 1 is
\* registered as "a" and makes sA visible; user 2 is not registered yet and
\* has no submission.
InitLifecycle ==
    /\ users = [u \in {1} |-> [atcoder_id |-> <<"a">>, is_active |-> TRUE]]
    /\ problems = [p \in {"p1"} |-> [difficulty |-> Some(1000)]]
    /\ ratings = [u \in {1} |-> 1000]
    /\ fetch_state = [u \in {1} |->
            [last_checked_epoch |-> INITIAL_FETCH_EPOCH, last_submission_id |-> None]]
    /\ streaks = [u \in {1} |-> [current_streak |-> 0, last_ac_date |-> None]]
    /\ weekly_scores = << >>
    /\ submissions = << >>
    /\ last_ac = << >>
    /\ remote = [u \in UserIds |-> {}]
    /\ pending = [u \in UserIds |-> IF u = 1 THEN {sA} ELSE {}]
    /\ task = [l \in Loops |-> IdleTask(IF l = 1 THEN "sleep" ELSE "none", << >>)]
    /\ failures = 0
    /\ prev = [u \in UserIds |-> NoCycle]
    /\ calls = << >>

\* The bot starts up again on the same store (on_ready, main.py 115-116).
call_init_db ==
    /\ Len(calls) < MaxCalls
    /\ fetch_state' = db_init_db(fetch_state)
    /\ calls' = Append(calls, Call("init_db", <<0>>))
    /\ UNCHANGED <<tables, streaks, weekly_scores, submissions, last_ac,
                   remote, pending, task, failures, prev>>

NextLifecycle ==
    \/ Next
    \/ \E u \in UserIds : call_upsert_user(u, <<"a", " ">>)
    \/ \E u \in UserIds : call_deactivate_user(u)
    \/ call_init_db

SpecLifecycle == InitLifecycle /\ [][NextLifecycle]_vars

\* User 1's acceptances on three consecutive JST days (day 0: sB, day 1: sD,
\* day 2: sJ), which the remote endpoints come to serve in any order.
InitStreak == InitWith({sB, sD, sJ})

SpecStreak == InitStreak /\ [][Next]_vars

\* get_weekly_scores: the rows of week_start, highest score first (rows of
\* equal score are ordered by score_updated_at, which is not kept here).
RECURSIVE RowsByScore(_)
RowsByScore(rows) ==
    IF rows = {} THEN << >>
    ELSE LET top == CHOOSE r \in rows :
                        \A q \in rows : q.score < r.score
                                            \/ (q.score = r.score
                                                    /\ q.discord_id >= r.discord_id)
         IN  <<top>> \o RowsByScore(rows \ {top})

db_get_weekly_scores(ws, week_start) ==
    RowsByScore({[discord_id |-> k[2], score |-> ws[k]] :
                    k \in {x \in DOMAIN ws : x[1] = week_start}})

\* The weeks handle_weekly_reset has run for.
ResetWeeks == {calls[i].args[1] :
                    i \in {j \in DOMAIN calls : calls[j].op = "handle_weekly_reset"}}

\* (The entry of the history keeps, in in_cycle, the polling tasks whose cycle
\* was in progress at the reset.)
\* weekly_loop wakes up at the start of a week and handle_weekly_reset reads
\* the scores of the week prev_start that has just ended (lines 344-372): the
\* weeks come in order, and nothing submitted after the end of prev_start is
\* visible yet.
call_handle_weekly_reset(prev_start) ==
    /\ Len(calls) < MaxCalls
    /\ \A w \in ResetWeeks : w < prev_start
    /\ \A u \in DOMAIN remote : \A r \in remote[u] :
            r.epoch_second < prev_start + 604800
    /\ calls' = Append(calls,
                       [op |-> "handle_weekly_reset", args |-> <<prev_start>>,
                        result |-> db_get_weekly_scores(weekly_scores, prev_start),
                        in_cycle |-> {l \in Loops : InCycle(l)}])
    /\ UNCHANGED <<tables, store, remote, pending, task, failures, prev>>

\* Polling and the weekly reset: user 1 makes sA visible in the week of
\* 1969-12-29 and sF in the week after.
InitReset == InitWith({sA, sF})

NextReset ==
    \/ Next
    \/ \E w \in WeekStarts : call_handle_weekly_reset(w)

SpecReset == InitReset /\ [][NextReset]_vars

(***************************************************************************)
(* The pure functions of src/utils.py and src/scoring.py called directly.  *)
(***************************************************************************)
\* The instants: every full hour of the first MaxHours hours of 1970, the
\* second before and the second after it, and the instant of
\* test_week_start_jst (2026-01-18 00:00 UTC).
Instants ==
    {h * 3600 + d : h \in 0 .. MaxHours, d \in {-1, 0, 1}} \cup {1768694400}

call_week_start_jst(t) ==
    /\ calls' = << Returned("week_start_jst", <<t>>, week_start_jst(t)) >>
    /\ UNCHANGED <<tables, store, remote, pending, task, failures, prev>>

NextWeekStart ==
    \/ \E t \in Instants : call_week_start_jst(t)

SpecWeekStart == InitEmpty /\ [][NextWeekStart]_vars

Streaks == 0 .. MaxStreak
Grades == {100 * i : i \in 0 .. MaxGrade}

\* The history keeps the call before c if c repeats its function (for
\* base_score: with the same rating), to compare the two results.
WithLast(c, same_first_arg) ==
    IF /\ calls # << >>
       /\ calls[Len(calls)].op = c.op
       /\ same_first_arg => calls[Len(calls)].args[1] = c.args[1]
    THEN << calls[Len(calls)], c >>
    ELSE << c >>

call_streak_multiplier(streak) ==
    /\ calls' = WithLast(Returned("streak_multiplier", <<streak>>,
                                  streak_multiplier(streak)), FALSE)
    /\ UNCHANGED <<tables, store, remote, pending, task, failures, prev>>

call_base_score(rating, difficulty) ==
    /\ calls' = WithLast(Returned("base_score", <<rating, difficulty>>,
                                  base_score(rating, difficulty)), TRUE)
    /\ UNCHANGED <<tables, store, remote, pending, task, failures, prev>>

NextScoring ==
    \/ \E s \in Streaks : call_streak_multiplier(s)
    \/ \E r \in Grades, d \in Grades : call_base_score(r, d)

SpecScoring == InitEmpty /\ [][NextScoring]_vars

RawHalves == DOMAIN CompressedTable \cup (800 .. (800 + MaxHalvesAbove))

call_display_difficulty(k) ==
    /\ calls' = WithLast(Returned("display_difficulty", <<k>>,
                                  display_difficulty(k)), FALSE)
    /\ UNCHANGED <<tables, store, remote, pending, task, failures, prev>>

NextDifficulty ==
    \E k \in RawHalves : call_display_difficulty(k)

SpecDifficulty == InitEmpty /\ [][NextDifficulty]_vars

\* What the problem-models request may yield.
ModelsPayloads ==
    {Raised, JNull, JStr("oops"), JNum(5), JList(<< >>),
     JDict(<< >>),
     JDict([p1 |-> JStr("hard")]),
     JDict([p1 |-> JDict(<< >>)]),
     JDict([p1 |-> JNum(400)]),
     JDict([p1 |-> JDict([difficulty |-> JNum(400)]),
            p2 |-> JDict([difficulty |-> JNum(1800)])]),
     JDict([models |-> JList(<< JDict([problem_id |-> JStr("p1"),
                                       difficulty |-> JNum(1600)]) >>)]),
     JDict([data |-> JStr("oops")]),
     JDict([models |-> JDict([p1 |-> JNum(400)])]),
     JList(<< JDict([problem_id |-> JStr("p2"), difficulty |-> JNum(400)]),
              JStr("junk"),
              JDict([problem_id |-> JStr("p2"), difficulty |-> JNum(1800)]) >>)}

\* What the problems request may yield.
ProblemsPayloads ==
    {Raised, JNull,
     JList(<< JDict([id |-> JStr("p1")]), JDict([id |-> JStr("p2")]) >>),
     JList(<< JDict([problem_id |-> JStr("p2")]), JDict([title |-> JStr("x")]) >>)}

\* The catalog holds p1 with difficulty 1000.
InitSync ==
    /\ users = << >>
    /\ problems = [p \in {"p1"} |-> [difficulty |-> Some(1000)]]
    /\ ratings = << >>
    /\ fetch_state = << >>
    /\ streaks = << >>
    /\ weekly_scores = << >>
    /\ submissions = << >>
    /\ last_ac = << >>
    /\ remote = << >>
    /\ pending = << >>
    /\ task = [l \in Loops |-> IdleTask("none", << >>)]
    /\ failures = 0
    /\ prev = << >>
    /\ calls = << >>

call_sync_problems(models, problem_list) ==
    LET done == sync_problems(problems, models, problem_list)
    IN  /\ problems' = done.problems
        /\ calls' = << Returned("sync_problems", <<models, problem_list>>,
                                done.upserted) >>
        /\ UNCHANGED <<users, ratings, store, remote, pending, task, failures, prev>>

NextSync ==
    \E models \in ModelsPayloads, problem_list \in ProblemsPayloads :
        call_sync_problems(models, problem_list)

SpecSync == InitSync /\ [][NextSync]_vars

(***************************************************************************)
(* Properties.                                                             *)
(***************************************************************************)
MaxEpoch(S) == CHOOSE m \in {r.epoch_second : r \in S} :
                    \A r \in S : r.epoch_second <= m

\* Task l runs a cycle for a user whose previous cycle ended normally on the
\* same remote result set, and nothing has failed so far.
SecondRun(l) ==
    /\ task[l].pc \in CyclePcs \ {"fetch"}
    /\ failures = 0
    /\ prev[task[l].discord_id].outcome \in {"done", "empty"}
    /\ prev[task[l].discord_id].results = task[l].results

\* C1: with no failures, a poll_user cycle that runs right after another one
\* of the same user against the same remote result set appends no
\* submission record and changes no weekly aggregate, streak or
\* LastAcceptance entry.
C1_SecondRunCreditsNothing ==
    [][\A l \in Loops : SecondRun(l) => UNCHANGED credit]_vars

\* C2: an entry whose persistence step has completed (LastAcceptance holds
\* its timestamp), whether or not an earlier cycle was interrupted inside
\* that step, has exactly one submission record.
C2_ExactlyOneRecord ==
    \A k \in DOMAIN last_ac :
        Cardinality({i \in DOMAIN submissions :
            /\ submissions[i].discord_id = k[1]
            /\ submissions[i].problem_id = k[2]
            /\ submissions[i].submitted_at = last_ac[k]}) = 1

\* C3: the stored last_checked_epoch of a user never decreases, whatever the
\* outcome of a cycle.
C3_WatermarkMonotonic ==
    [][\A u \in DOMAIN fetch_state :
        fetch_state'[u].last_checked_epoch >= fetch_state[u].last_checked_epoch]_vars

\* A cycle has stored the watermark after handling only entries older than
\* the watermark it started from.
C3_Witness ==
    /\ prev[1].outcome = "done"
    /\ MaxEpoch(prev[1].filtered) < prev[1].before.last_checked_epoch
    /\ fetch_state[1].last_checked_epoch = prev[1].before.last_checked_epoch

\* C4 (as claimed): of two accepted submissions of the same problem less
\* than 7 days apart, the one handled second is not credited: no task is in
\* the persistence step for an entry when an entry of the same problem less
\* than 7 days older was handled before it in the same cycle.
C4_SecondNeverCredited ==
    \A l \in Loops :
        task[l].pc \in PersistPcs =>
            ~ \E j \in 1 .. (task[l].idx - 1) :
                /\ task[l].filtered[j].problem_id = Cur(l).problem_id
                /\ Cur(l).epoch_second - task[l].filtered[j].epoch_second
                        < COOLDOWN_SECONDS

\* C4 (amended): an accepted submission handled while LastAcceptance of its
\* user and problem holds a timestamp less than 7 days before its own (or
\* after its own) never enters the persistence step: it is not credited.
C4_CooldownNeverCredited ==
    \A l \in Loops :
        task[l].pc \in PersistPcs =>
            LET key == <<task[l].discord_id, Val(Cur(l).problem_id)>>
            IN  ~ (/\ key \in DOMAIN last_ac
                   /\ Cur(l).epoch_second - last_ac[key] < 604800)

\* A submission made less than 7 days after the credited one of the same
\* problem has been handled and has left no record.
C4_Witness ==
    \E l \in Loops :
        /\ task[l].pc \in {"handle", "update_fetch_state"}
        /\ task[l].idx >= 2
        /\ LET e == task[l].filtered[task[l].idx - 1]
           IN  /\ e.problem_id # None
               /\ <<task[l].discord_id, Val(e.problem_id)>> \in DOMAIN last_ac
               /\ e.epoch_second > last_ac[<<task[l].discord_id, Val(e.problem_id)>>]
               /\ e.epoch_second - last_ac[<<task[l].discord_id, Val(e.problem_id)>>]
                        < 604800
               /\ \A i \in DOMAIN submissions :
                        submissions[i].submitted_at # e.epoch_second

\* C5: crediting an acceptance of JST date T with stored last_ac_date D
\* leaves the streak unchanged if T = D, adds 1 if T = D + 1 day, sets it to
\* 1 otherwise (D unset included), and stores last_ac_date = T.
C5_StreakTransition ==
    [][\A l \in Loops :
        (task[l].pc = "update_streak" /\ task'[l].pc = "insert_submission") =>
            LET u == task[l].discord_id
                T == (Cur(l).epoch_second + 32400) \div 86400
                D == streaks[u].last_ac_date
                n == streaks[u].current_streak
            IN  /\ streaks'[u].last_ac_date = <<T>>
                /\ streaks'[u].current_streak =
                        IF D = <<T>> THEN n
                        ELSE IF D = <<T - 1>> THEN n + 1
                        ELSE 1]_vars

\* An acceptance on the day after last_ac_date has just raised the streak
\* to 2.
C5_Witness ==
    \E l \in Loops :
        /\ task[l].pc = "insert_submission"
        /\ streaks[task[l].discord_id].current_streak = 2

\* The end-to-end scenario: rating 1000, watermark (1000, unset), no streak,
\* and a cycle whose remote result is the single AC sA (epoch 1500, problem
\* p1 of difficulty 1000) has ended.
C6_Scenario ==
    /\ failures = 0
    /\ ratings[1] = 1000
    /\ problems["p1"].difficulty = <<1000>>
    /\ remote[1] = {sA}
    /\ prev[1].outcome = "done"
    /\ prev[1].results = {sA}
    /\ prev[1].before = [last_checked_epoch |-> 1000, last_submission_id |-> None]

C6_Outcome(final) ==
    /\ submissions = << [discord_id |-> 1, problem_id |-> "p1",
                         submitted_at |-> 1500, score_base |-> 250,
                         streak_mult |-> 105, score_final |-> final] >>
    /\ streaks[1].current_streak = 1
    /\ DOMAIN weekly_scores = {<<-266400, 1>>}
    /\ weekly_scores[<<-266400, 1>>] = final
    /\ fetch_state[1].last_checked_epoch = 1500

\* C6 (as claimed): the scenario yields base score 250, streak 1, multiplier
\* 1.05, final score 263, 263 more in the week's aggregate, watermark 1500.
C6_EndToEnd263 == C6_Scenario => C6_Outcome(263)

\* C6 (amended): the same with final score and weekly increase 262, which
\* is round(262.5) under Python's round-half-to-even.
C6_EndToEnd262 == C6_Scenario => C6_Outcome(262)

C6_Witness == C6_Scenario

\* C7: when the fetch of a cycle fails, the cycle ends there and FetchState,
\* Streak, WeeklyAggregate, the submission records and LastAcceptance are
\* what they were.
C7_FetchFailureChangesNothing ==
    [][\A l \in Loops :
        (task[l].pc = "fetch" /\ failures' > failures) =>
            /\ UNCHANGED store
            /\ task'[l].pc = "next_user"]_vars

\* A fetch has failed while the remote source served an accepted submission
\* newer than the watermark.
C7_Witness ==
    /\ prev[1].outcome \in {"fetch_error", "fetch_none"}
    /\ \E r \in prev[1].results :
            r.result = "AC" /\ r.epoch_second > prev[1].before.last_checked_epoch
    /\ fetch_state[1] = prev[1].before

\* The largest id among the entries of S at epoch m, None if none has an id.
MaxIdAt(S, m) ==
    LET ids == {Val(r.id) : r \in {x \in S : x.epoch_second = m /\ x.id # None}}
    IN  IF ids = {} THEN None
        ELSE Some(CHOOSE i \in ids : \A j \in ids : j <= i)

\* C8 (as claimed): after a cycle with at least one filtered entry the stored
\* last_checked_epoch is the maximum epoch among the filtered entries and
\* last_submission_id the largest id among those at that epoch.
C8_WatermarkIsMaxFiltered ==
    \A u \in DOMAIN prev :
        prev[u].outcome = "done" =>
            /\ fetch_state[u].last_checked_epoch = MaxEpoch(prev[u].filtered)
            /\ fetch_state[u].last_submission_id =
                    MaxIdAt(prev[u].filtered, MaxEpoch(prev[u].filtered))

\* C8 (amended): after a cycle with at least one filtered entry that reaches
\* its update_fetch_state, last_checked_epoch is the larger of its previous
\* value and the maximum filtered epoch; if that maximum is not below the
\* previous value, last_submission_id is the largest id among the filtered
\* entries at it (unset if none has an id), otherwise FetchState is unchanged.
C8_WatermarkIsMaxOfBoth ==
    \A u \in DOMAIN prev :
        prev[u].outcome = "done" =>
            LET m == MaxEpoch(prev[u].filtered)
                b == prev[u].before
            IN  IF m >= b.last_checked_epoch
                THEN /\ fetch_state[u].last_checked_epoch = m
                     /\ fetch_state[u].last_submission_id = MaxIdAt(prev[u].filtered, m)
                ELSE fetch_state[u] = b

\* A cycle has ended in which two filtered entries shared the maximum epoch,
\* above the previous watermark.
C8_Witness ==
    /\ prev[1].outcome = "done"
    /\ MaxEpoch(prev[1].filtered) > prev[1].before.last_checked_epoch
    /\ Cardinality({r \in prev[1].filtered :
            r.epoch_second = MaxEpoch(prev[1].filtered)}) >= 2

\* C9: whatever becomes of the notification side effects of a credited
\* entry, the cycle goes on: to the next filtered entry, or to the
\* watermark update.
C9_NotificationNeverEndsCycle ==
    [][\A l \in Loops :
        (task[l].pc = "notify" /\ task'[l].pc # "notify") =>
            task'[l].pc \in {"handle", "update_fetch_state"}]_vars

\* C10: no two poll_user cycles of the same user are in progress at once.
C10_NoOverlappingCycles ==
    \A l1, l2 \in Loops :
        (l1 # l2 /\ InCycle(l1) /\ InCycle(l2)) =>
            task[l1].discord_id # task[l2].discord_id

\* What the store holds for user v.
DataOf(v) ==
    [fetch_state |-> IF v \in DOMAIN fetch_state THEN <<fetch_state[v]>> ELSE << >>,
     streak |-> IF v \in DOMAIN streaks THEN <<streaks[v]>> ELSE << >>,
     weekly |-> [k \in {x \in DOMAIN weekly_scores : x[2] = v} |-> weekly_scores[k]],
     submissions |-> SelectSeq(submissions, LAMBDA rec : rec.discord_id = v),
     last_ac |-> [k \in {x \in DOMAIN last_ac : x[1] = v} |-> last_ac[k]]]

\* C11: a step of user u's cycle, an error ending it included, changes no
\* FetchState, Streak, WeeklyAggregate, submission or LastAcceptance data of
\* another user, and an error leaves the users still to be polled in the
\* pass as they were, with poll_all_users at its next user.
C11_ErrorStaysWithUser ==
    [][\A l \in Loops :
        InCycle(l) =>
            /\ \A v \in DOMAIN users :
                    v # task[l].discord_id => DataOf(v)' = DataOf(v)
            /\ failures' > failures =>
                    /\ task'[l].pc = "next_user"
                    /\ task'[l].todo = task[l].todo]_vars

\* The cycle of user 1 has failed and, in the same pass, user 2's cycle has
\* credited an entry.
C11_Witness ==
    /\ prev[1].outcome \in {"fetch_error", "fetch_none", "store_error", "notify_error"}
    /\ task[1].discord_id = 2
    /\ task[1].pc = "notify"
    /\ failures = 1

\* C12: a store write that raises while an entry is being handled ends the
\* cycle there (no later entry is handled) with FetchState as it was, and
\* after such a cycle the stored watermark is still the one the cycle
\* started from.
C12_StoreErrorAbortsCycle ==
    /\ [](\A u \in DOMAIN prev :
            prev[u].outcome = "store_error" => fetch_state[u] = prev[u].before)
    /\ [][\A l \in Loops :
            (task[l].pc \in PersistPcs /\ failures' > failures) =>
                /\ fetch_state' = fetch_state
                /\ task'[l].pc = "next_user"]_vars

\* A cycle was ended by a store error after an earlier entry of it, newer
\* than the watermark, had been persisted completely.
C12_Witness ==
    /\ prev[1].outcome = "store_error"
    /\ Cardinality(prev[1].filtered) >= 2
    /\ \E k \in DOMAIN last_ac :
            /\ last_ac[k] > fetch_state[1].last_checked_epoch
            /\ \E r \in prev[1].filtered : r.epoch_second = last_ac[k]

\* The sum of the deltas the calls c[1..n] added for the key (w, u).
RECURSIVE SumAdded(_, _, _, _)
SumAdded(c, n, w, u) ==
    IF n = 0 THEN 0
    ELSE SumAdded(c, n - 1, w, u) +
         (IF c[n].op = "add_weekly_score" /\ c[n].args[1] = w /\ c[n].args[2] = u
          THEN c[n].args[3] ELSE 0)

\* C13: after any sequence of add_weekly_score calls, get_weekly_score of a
\* (week, user) key is the sum of the deltas added for exactly that key, 0
\* if none was added.
C13_WeeklyScoreIsSum ==
    \A w \in WeekStarts, u \in UserIds :
        db_get_weekly_score(weekly_scores, w, u) = SumAdded(calls, Len(calls), w, u)

\* 100 and then 50 were added for one key, and something for another key.
C13_Witness ==
    /\ Len(calls) = 3
    /\ \E i, j \in 1 .. 3 :
            /\ i < j
            /\ calls[i].args = <<-266400, 1, 100>>
            /\ calls[j].args = <<-266400, 1, 50>>
    /\ \E i \in 1 .. 3 : calls[i].args[2] = 2
    /\ db_get_weekly_score(weekly_scores, -266400, 1) = 150

\* C14: week_start_jst(t) is a Monday 07:00 JST (1970-01-05 07:00 JST is
\* 338400 s after the epoch) with week_start_jst(t) <= t < week_start_jst(t)
\* + 7 days.
C14_WeekStartIsLatestMonday ==
    \A i \in DOMAIN calls :
        calls[i].op = "week_start_jst" =>
            LET t == calls[i].args[1]
                w == calls[i].result
            IN  /\ (w - 338400) % 604800 = 0
                /\ w <= t
                /\ t < w + 604800

\* Monday 1970-01-12 06:00 JST has been mapped to Monday 1970-01-05 07:00 JST.
C14_Witness ==
    calls = << [op |-> "week_start_jst", args |-> <<939600>>, result |-> 338400] >>

\* The cycles whose filter has run: those in progress past the fetch, and the
\* last finished one of each user that got an answer from the fetch. Each
\* with the watermark it read, the results served and the entries it kept.
FilterRuns ==
    {[before |-> [last_checked_epoch |-> task[l].last_epoch,
                  last_submission_id |-> task[l].last_submission_id],
      results |-> task[l].results,
      filtered |-> {task[l].filtered[i] : i \in DOMAIN task[l].filtered}] :
        l \in {k \in Loops : task[k].pc \in CyclePcs \ {"fetch"}}}
    \cup
    {[before |-> prev[u].before, results |-> prev[u].results,
      filtered |-> prev[u].filtered] :
        u \in {v \in DOMAIN prev :
                    prev[v].outcome \notin {"none", "fetch_error", "fetch_none"}}}

\* "New" as claimed: after the watermark, or at its epoch with a greater id
\* or with no stored id.
NewAsClaimed(r, b) ==
    \/ r.epoch_second > b.last_checked_epoch
    \/ /\ r.epoch_second = b.last_checked_epoch
       /\ \/ b.last_submission_id = << >>
          \/ r.id # << >> /\ r.id[1] > b.last_submission_id[1]

\* C15 (as claimed): an AC result is kept for handle_ac iff it is new as
\* claimed.
C15_FilteredIffNew ==
    \A c \in FilterRuns : \A r \in c.results :
        r.result = "AC" => (r \in c.filtered <=> NewAsClaimed(r, c.before))

\* C15 (amended): an AC result is kept for handle_ac iff it is new as
\* claimed, or its epoch is before last_checked_epoch and not before the
\* window start max(0, last_checked_epoch - 86400).
C15_FilteredIffNewOrLate ==
    \A c \in FilterRuns : \A r \in c.results :
        r.result = "AC" =>
            (r \in c.filtered <=>
                \/ NewAsClaimed(r, c.before)
                \/ /\ r.epoch_second < c.before.last_checked_epoch
                   /\ r.epoch_second >= 0
                   /\ r.epoch_second >= c.before.last_checked_epoch - 86400)

\* A cycle kept an AC older than its watermark and dropped another one, older
\* than its window.
C15_Witness ==
    \E c \in FilterRuns :
        /\ \E r \in c.filtered : r.epoch_second < c.before.last_checked_epoch
        /\ \E r \in c.results \ c.filtered :
                r.result = "AC" /\ r.epoch_second < c.before.last_checked_epoch - 86400

\* C16: streak_multiplier(s), in hundredths, is 100 at s = 0, 100 + 5 s up
\* to s = 7 and 135 from s = 7 on, and it never decreases as s grows.
C16_StreakMultiplierCapped ==
    /\ \A i \in DOMAIN calls :
            calls[i].op = "streak_multiplier" =>
                LET s == calls[i].args[1]
                    m == calls[i].result
                IN  /\ s = 0 => m = 100
                    /\ s < 7 => m = 100 + 5 * s
                    /\ s >= 7 => m = 135
    /\ (Len(calls) = 2 /\ calls[1].op = "streak_multiplier"
            /\ calls[1].args[1] <= calls[2].args[1])
        => calls[1].result <= calls[2].result

\* streak_multiplier(7) and then streak_multiplier(10) returned 1.35.
C16_Witness ==
    calls = << [op |-> "streak_multiplier", args |-> <<7>>, result |-> 135],
               [op |-> "streak_multiplier", args |-> <<10>>, result |-> 135] >>

\* C17: base_score(r, r) = 250; base_score(1000, 1200) > 250 >
\* base_score(1000, 800); and for one rating, of two difficulties the higher
\* one never scores lower.
C17_BaseScoreMidpointAndOrder ==
    /\ \A i \in DOMAIN calls :
            calls[i].op = "base_score" =>
                LET r == calls[i].args[1]
                    d == calls[i].args[2]
                    b == calls[i].result
                IN  /\ r = d => b = 250
                    /\ (r = 1000 /\ d = 1200) => b > 250
                    /\ (r = 1000 /\ d = 800) => b < 250
    /\ (Len(calls) = 2 /\ calls[1].op = "base_score"
            /\ calls[1].args[1] = calls[2].args[1]
            /\ calls[1].args[2] <= calls[2].args[2])
        => calls[1].result <= calls[2].result

\* base_score(1000, 800) and then base_score(1000, 1200) were evaluated.
C17_Witness ==
    /\ Len(calls) = 2
    /\ calls[1].op = "base_score" /\ calls[1].args = <<1000, 800>>
    /\ calls[2].op = "base_score" /\ calls[2].args = <<1000, 1200>>
    /\ calls[1].result < 250 /\ calls[2].result > 250

\* Raw difficulty k / 2 rounded to an integer, ties to the even one.
RoundedRaw(k) ==
    CHOOSE n \in (k \div 2) .. (k \div 2 + 1) :
        \/ k = 2 * n
        \/ k % 2 = 1 /\ n % 2 = 0

\* display_difficulty(0) = 147 = round(400 / e), the value the test pins,
\* and display_difficulty(d) = round(d) from 400 on.
C18_Values(c) ==
    /\ c.args[1] = 0 => c.result = 147
    /\ c.args[1] >= 800 => c.result = RoundedRaw(c.args[1])

\* C18 (as claimed): display_difficulty(d) = round(d) for d >= 400; below
\* 400 it is less than 400 and strictly increasing in d.
C18_StrictlyIncreasingBelow400 ==
    /\ \A i \in DOMAIN calls :
            /\ C18_Values(calls[i])
            /\ calls[i].args[1] < 800 => calls[i].result < 400
    /\ (Len(calls) = 2 /\ calls[1].args[1] < calls[2].args[1]
            /\ calls[2].args[1] < 800)
        => calls[1].result < calls[2].result

\* C18 (amended): display_difficulty(d) = round(d) for d >= 400; below 400
\* it is at most 400 and never decreases as d grows.
C18_NonDecreasingAtMost400 ==
    /\ \A i \in DOMAIN calls :
            /\ C18_Values(calls[i])
            /\ calls[i].args[1] < 800 => calls[i].result <= 400
    /\ (Len(calls) = 2 /\ calls[1].args[1] < calls[2].args[1]
            /\ calls[2].args[1] < 800)
        => calls[1].result <= calls[2].result

\* display_difficulty(1) and then display_difficulty(2) returned 148.
C18_Witness ==
    calls = << [op |-> "display_difficulty", args |-> <<2>>, result |-> 148],
               [op |-> "display_difficulty", args |-> <<4>>, result |-> 148] >>

\* The calls about user u, and the latest of them.
CallsAbout(u) == {i \in DOMAIN calls : calls[i].args[1] = u}
LastCallAbout(u) ==
    calls[CHOOSE i \in CallsAbout(u) : \A j \in CallsAbout(u) : j <= i]

\* C19: after any sequence of upsert_user and deactivate_user calls every
\* user ever registered still has a row, and get_active_users returns
\* exactly the users whose latest call was upsert_user, with the atcoder_id
\* of that call; deactivate_user changes nothing but the active flag of its
\* user; and no call removes a user row.
C19_SoftDelete ==
    /\ [](/\ \A i \in DOMAIN calls :
                calls[i].op = "upsert_user" => calls[i].args[1] \in DOMAIN users
          /\ db_get_active_users(users) =
                {[discord_id |-> u, atcoder_id |-> LastCallAbout(u).args[2]] :
                    u \in {v \in UserIds :
                            /\ CallsAbout(v) # {}
                            /\ LastCallAbout(v).op = "upsert_user"}})
    /\ [][/\ DOMAIN users \subseteq DOMAIN users'
          /\ (Len(calls') > Len(calls)
                    /\ calls'[Len(calls')].op = "deactivate_user") =>
                /\ UNCHANGED <<fetch_state, streaks, weekly_scores, submissions>>
                /\ DOMAIN users' = DOMAIN users
                /\ \A u \in DOMAIN users :
                        /\ users'[u].atcoder_id = users[u].atcoder_id
                        /\ u # calls'[Len(calls')].args[1] => users'[u] = users[u]]_vars

\* User 1, who has a credited acceptance, was deactivated and user 2 was
\* registered after that.
C19_Witness ==
    /\ Len(calls) = 3
    /\ calls[2] = [op |-> "deactivate_user", args |-> <<1>>]
    /\ calls[3].op = "upsert_user" /\ calls[3].args[1] = 2
    /\ ~ users[1].is_active
    /\ Len(submissions) = 1

\* Problem p is absent from the catalog or has no difficulty there.
NoDifficulty(p) == p \notin DOMAIN problems \/ problems[p].difficulty = << >>

\* CPython's round(150 * (1.0 + 0.05 * k)) for k = 0 .. 7.
FlatFinalScores == <<150, 158, 165, 172, 180, 188, 195, 202>>

\* C20: the record inserted for a credited entry whose problem has no known
\* difficulty has base score 150 and final score round(150 * multiplier of
\* the new streak), whatever the user's rating.
C20_FlatBaseScore ==
    [][\A l \in Loops :
        (/\ task[l].pc = "insert_submission"
         /\ task'[l].pc = "add_weekly_score"
         /\ NoDifficulty(Cur(l).problem_id[1])) =>
            LET rec == submissions'[Len(submissions')]
                n == streaks[task[l].discord_id].current_streak
            IN  /\ rec.problem_id = Cur(l).problem_id[1]
                /\ rec.score_base = 150
                /\ rec.score_final = FlatFinalScores[(IF n < 7 THEN n ELSE 7) + 1]]_vars

\* User 1 (rating 1000) was credited 158 for p3, which has no difficulty,
\* and user 2 (no rating) 202 for p4, which the catalog does not hold, at a
\* streak of 8.
C20_Witness ==
    /\ \E i \in DOMAIN submissions :
            /\ submissions[i].discord_id = 1 /\ submissions[i].problem_id = "p3"
            /\ submissions[i].score_final = 158
    /\ \E i \in DOMAIN submissions :
            /\ submissions[i].discord_id = 2 /\ submissions[i].problem_id = "p4"
            /\ submissions[i].score_final = 202
    /\ streaks[2].current_streak = 8

\* Every request of the log c was answered 404.
AllNotFound(c) ==
    c # << >> /\ \A i \in DOMAIN c : c[i].op = "GET" /\ c[i].result = "not_found"

\* C21: a fetch whose every request answered 404 has sent exactly one
\* request per candidate id ("Ab", then "ab"), to the v3 endpoint and then
\* to the legacy endpoint; it returns the empty list without raising, and
\* the cycle ends there with FetchState, Streak, WeeklyAggregate, the
\* submission records and LastAcceptance unchanged.
C21_NotFoundIsNoData ==
    [][\A l \in Loops :
        (task[l].pc = "fetch" /\ task'[l].pc # "fetch" /\ AllNotFound(calls')) =>
            /\ [i \in DOMAIN calls' |-> calls'[i].args] =
                    << <<"v3", <<"A", "b">>, 1>>, <<"v3", <<"a", "b">>, 1>>,
                       <<"legacy", <<"A", "b">>, 1>>, <<"legacy", <<"a", "b">>, 1>> >>
            /\ prev'[task[l].discord_id].outcome = "empty"
            /\ failures' = failures
            /\ task'[l].pc = "next_user"
            /\ UNCHANGED store]_vars

\* After a cycle that credited sA, a cycle got 404 from all four requests
\* while the remote source held sA, and has ended.
C21_Witness ==
    /\ AllNotFound(calls) /\ Len(calls) = 4
    /\ prev[1].outcome = "empty"
    /\ prev[1].results = {sA}
    /\ Len(submissions) = 1
    /\ fetch_state[1] = [last_checked_epoch |-> 1500, last_submission_id |-> Some(11)]
    /\ task[1].pc = "next_user"

\* A timeout, a connection error or an HTTP 429/500/502/503/504.
IsTransient(response) == response \in {"transient_status", "transient_error"}

\* The log c ends with three transient failures of one request.
EndsExhausted(c) ==
    /\ Len(c) >= 3
    /\ c[Len(c)].args[3] = 3
    /\ \A i \in (Len(c) - 2) .. Len(c) : c[i].op = "GET" /\ IsTransient(c[i].result)

\* C22: no request is attempted more than 3 times; a transient failure
\* before the third attempt is followed by another attempt of the same
\* request; and when all three attempts fail transiently the fetch ends
\* with the error raised to the caller, not with a value returned.
C22_TransientFailureSurfaced ==
    /\ [](\A i \in DOMAIN calls :
            calls[i].op = "GET" =>
                /\ calls[i].args[3] <= 3
                /\ (IsTransient(calls[i].result) /\ calls[i].args[3] < 3) =>
                        IF i < Len(calls)
                        THEN calls[i + 1].args =
                                <<calls[i].args[1], calls[i].args[2], calls[i].args[3] + 1>>
                        ELSE \E l \in Loops :
                                /\ task[l].pc = "fetch"
                                /\ task[l].http.attempt = calls[i].args[3] + 1)
    /\ [][\A l \in Loops :
            (task[l].pc = "fetch" /\ EndsExhausted(calls') /\ calls' # calls) =>
                /\ task'[l].pc = "next_user"
                /\ prev'[task[l].discord_id].outcome = "fetch_error"]_vars

\* C23: whatever the fetch, the store or the notifications raise, the
\* polling_loop task is never done, and every active user's cycle starts
\* again and again.
C23_PolledInfinitelyOften ==
    /\ [](\A l \in Loops : task[l].pc # "done")
    /\ \A u \in {1, 2} :
            []<>(\E l \in Loops : task[l].pc = "fetch" /\ task[l].discord_id = u)

\* A dict that is read as a mapping from problem ids.
IsMapping(m) ==
    m.kind = "dict" /\ "models" \notin DOMAIN m.fields /\ "data" \notin DOMAIN m.fields

\* No value of the mapping m is a number or an object with a difficulty.
NoDifficultyIn(m) ==
    \A k \in DOMAIN m.fields :
        /\ m.fields[k].kind # "num"
        /\ ~ (/\ m.fields[k].kind = "dict"
              /\ "difficulty" \in DOMAIN m.fields[k].fields
              /\ m.fields[k].fields["difficulty"].kind = "num")

\* No value of the mapping m is a number or an object.
NoModelIn(m) ==
    \A k \in DOMAIN m.fields : m.fields[k].kind \notin {"num", "dict"}

\* The sync just called, with a models payload that is a string or neither
\* list nor dict, or with a failed fetch.
SyncOfBadPayload(c) ==
    /\ c # << >> /\ c[1].op = "sync_problems"
    /\ \/ c[1].args[1].kind \in {"str", "num", "null", "error"}
       \/ c[1].args[2].kind = "error"

\* C24 (as claimed): a sync whose models payload is a string, neither list
\* nor dict, or a mapping from which no difficulty can be extracted, or
\* one of whose fetches failed, calls no upsert and leaves the catalog as
\* it was.
C24_NoUpsertWithoutDifficulty ==
    [][(\/ SyncOfBadPayload(calls')
        \/ /\ calls' # << >>
           /\ IsMapping(calls'[1].args[1])
           /\ NoDifficultyIn(calls'[1].args[1])) =>
            /\ ~ calls'[1].result
            /\ problems' = problems]_vars

\* C24 (amended): the same for a mapping none of whose values is a number
\* or an object.
C24_NoUpsertWithoutModel ==
    [][(\/ SyncOfBadPayload(calls')
        \/ /\ calls' # << >>
           /\ IsMapping(calls'[1].args[1])
           /\ NoModelIn(calls'[1].args[1])) =>
            /\ ~ calls'[1].result
            /\ problems' = problems]_vars

\* After a sync that stored p1 and p2, a sync got a mapping of a problem id
\* to a string, and the catalog is what it was.
C24_Witness ==
    /\ calls # << >>
    /\ calls[1].args[1] = JDict([p1 |-> JStr("hard")])
    /\ calls[1].args[2].kind = "list"
    /\ ~ calls[1].result
    /\ problems = [p \in {"p1", "p2"} |->
                        [difficulty |-> IF p = "p1" THEN <<243>> ELSE <<900>>]]

\* The acceptance a submission record is about.
EventOf(rec) == <<rec.discord_id, rec.problem_id, rec.submitted_at>>

\* Entry e of task l's cycle is an AC with a problem id that the filter
\* keeps at the watermark the cycle read and the cooldown does not skip.
Creditable(l, e) ==
    LET key == <<task[l].discord_id, e.problem_id[1]>>
    IN  /\ e.result = "AC"
        /\ e.problem_id # << >>
        /\ e.epoch_second >= 0
        /\ e.epoch_second >= task[l].last_epoch - 86400
        /\ ~ (/\ e.epoch_second = task[l].last_epoch
              /\ task[l].last_submission_id # << >>
              /\ (e.id = << >> \/ e.id[1] <= task[l].last_submission_id[1]))
        /\ key \in DOMAIN last_ac => e.epoch_second - last_ac[key] >= 604800

\* C25: no two submission records are about the same acceptance; every
\* record has score_final = round(score_base * streak_mult), i.e. the
\* integer nearest to the product; and a record is appended only for a
\* creditable entry, with the multiplier of the streak that the same event
\* has stored.
C25_OneRecordPerCreditedEvent ==
    /\ [](\A i, j \in DOMAIN submissions :
                EventOf(submissions[i]) = EventOf(submissions[j]) => i = j)
    /\ [](\A i \in DOMAIN submissions :
            LET rec == submissions[i]
                d == 100 * rec.score_final - rec.score_base * rec.streak_mult
            IN  -50 <= d /\ d <= 50)
    /\ [][Len(submissions') > Len(submissions) =>
            \E l \in Loops :
                LET rec == submissions'[Len(submissions')]
                    n == streaks[task[l].discord_id].current_streak
                IN  /\ task[l].pc \in CyclePcs
                    /\ Creditable(l, Cur(l))
                    /\ EventOf(rec) = <<task[l].discord_id, Cur(l).problem_id[1],
                                        Cur(l).epoch_second>>
                    /\ rec.streak_mult = 100 + 5 * (IF n < 7 THEN n ELSE 7)
                    /\ Len(submissions') = Len(submissions) + 1]_vars

\* The Monday 07:00 JST (338400 s after the epoch, and every 7 days from
\* there) that starts the week containing the instant t.
WeekContaining(t) ==
    CHOOSE w \in {338400 + 604800 * k : k \in -1 .. 1} : w <= t /\ t < w + 604800

\* C26: the add_weekly_score of a credited entry adds the final score of
\* the entry's record to the aggregate of the entry's user and of the week
\* containing the entry's timestamp, and changes no other aggregate.
C26_ScoreGoesToEntryWeek ==
    [][\A l \in Loops :
        (task[l].pc = "add_weekly_score" /\ task'[l].pc = "upsert_last_ac") =>
            LET key == <<WeekContaining(Cur(l).epoch_second), task[l].discord_id>>
                before == IF key \in DOMAIN weekly_scores THEN weekly_scores[key] ELSE 0
            IN  /\ DOMAIN weekly_scores' = DOMAIN weekly_scores \cup {key}
                /\ weekly_scores'[key] =
                        before + submissions[Len(submissions)].score_final
                /\ \A k \in DOMAIN weekly_scores :
                        k # key => weekly_scores'[k] = weekly_scores[k]]_vars

\* One cycle of user 1 has credited sA to the week of 1969-12-29 and sF to
\* the week of 1970-01-05, while user 2 has an aggregate in the former.
C26_Witness ==
    /\ \E l \in Loops :
            /\ task[l].pc = "upsert_last_ac"
            /\ task[l].filtered = <<sA, sF>>
            /\ task[l].idx = 2
    /\ DOMAIN weekly_scores = {<<-266400, 1>>, <<338400, 1>>, <<-266400, 2>>}
    /\ weekly_scores[<<338400, 1>>] = 262

\* The sort key of an entry: (epoch, id or 0).
KeyOf(e) == <<e.epoch_second, IF e.id = << >> THEN 0 ELSE e.id[1]>>

\* C27: the filtered entries of a cycle are in non-decreasing (epoch, id or
\* 0) order, whatever the order of the response, and they are the list
\* every other ordering of the same results would have given; handle_ac
\* then takes them one after another in that order, so all that the cycle
\* stores is the same for every ordering.
C27_OrderIndependent ==
    [][\A l \in Loops :
        /\ (task[l].pc = "fetch" /\ task'[l].pc = "handle") =>
                LET f == task'[l].filtered
                    served == {calls'[1].result[i] : i \in DOMAIN calls'[1].result}
                IN  /\ \A i \in 1 .. (Len(f) - 1) :
                            \/ KeyOf(f[i])[1] < KeyOf(f[i + 1])[1]
                            \/ /\ KeyOf(f[i])[1] = KeyOf(f[i + 1])[1]
                               /\ KeyOf(f[i])[2] <= KeyOf(f[i + 1])[2]
                    /\ \A other \in Orderings(served) :
                            sort(FilterList(l, other)) = f
        /\ (task[l].pc \in CyclePcs \ {"fetch"} /\ task'[l].pc \in CyclePcs) =>
                /\ task'[l].filtered = task[l].filtered
                /\ task'[l].idx \in {task[l].idx, task[l].idx + 1}
                /\ task'[l].idx > task[l].idx => task[l].pc \in {"handle", "notify"}]_vars

\* The response listed sA, sB, sI (ids 11, 10, none, all at epoch 1500) and
\* the cycle is about to handle them as sI, sB, sA.
C27_Witness ==
    /\ calls = << [op |-> "fetch_user_results", args |-> <<1>>, result |-> <<sA, sB, sI>>] >>
    /\ task[1].pc = "handle"
    /\ task[1].idx = 1
    /\ task[1].filtered = <<sI, sB, sA>>

\* C28: a FetchState row appears only in the upsert_user of its user, with
\* the initial epoch 1000 and no submission id, and from then on it changes
\* only in the update_fetch_state that ends a cycle of that user:
\* upsert_user of an existing user, deactivate_user and init_db leave it
\* as it is.
C28_FetchStateOnlyByPolling ==
    [][/\ \A u \in DOMAIN fetch_state' \ DOMAIN fetch_state :
            /\ fetch_state'[u] = [last_checked_epoch |-> 1000, last_submission_id |-> << >>]
            /\ Len(calls') = Len(calls) + 1
            /\ calls'[Len(calls')] = [op |-> "upsert_user", args |-> <<u, <<"a">>>>]
       /\ \A u \in DOMAIN fetch_state :
            /\ u \in DOMAIN fetch_state'
            /\ fetch_state'[u] # fetch_state[u] =>
                    \E l \in Loops :
                        /\ task[l].pc = "update_fetch_state"
                        /\ task[l].discord_id = u
                        /\ task'[l].pc = "next_user"
                        /\ calls' = calls
       /\ (Len(calls') > Len(calls) /\ calls'[Len(calls')].op = "upsert_user") =>
            calls'[Len(calls')].args[1] \in DOMAIN fetch_state']_vars

\* User 1, whose watermark a cycle has moved to (1500, 11), was
\* unregistered and registered again, and then the bot started up again.
C28_Witness ==
    /\ calls = << [op |-> "deactivate_user", args |-> <<1>>],
                  [op |-> "upsert_user", args |-> <<1, <<"a">>>>],
                  [op |-> "init_db", args |-> <<0>>] >>
    /\ users[1].is_active
    /\ Len(submissions) = 1
    /\ fetch_state[1] = [last_checked_epoch |-> 1500, last_submission_id |-> <<11>>]


\* The JST days on which user u has a submission record.
RecordDays(u) ==
    {JstDate(submissions[i].submitted_at) :
        i \in {j \in DOMAIN submissions : submissions[j].discord_id = u}}

\* The number of consecutive days of `days` that end at day d.
RECURSIVE RunLength(_, _)
RunLength(days, d) ==
    IF d \notin days THEN 0 ELSE 1 + RunLength(days, d - 1)

\* No task is inside a poll cycle.
BetweenCycles == \A l \in Loops : ~ InCycle(l)

\* C29: between poll cycles, and as long as no store call has failed, every
\* user's current_streak is the number of consecutive JST days, ending at
\* last_ac_date, on each of which the user has a submission record (0 when
\* there is no last_ac_date).
C29_StreakCountsRecordedDays ==
    (BetweenCycles /\ failures = 0) =>
        \A u \in DOMAIN streaks :
            streaks[u].current_streak =
                IF streaks[u].last_ac_date = None THEN 0
                ELSE RunLength(RecordDays(u), Val(streaks[u].last_ac_date))

\* What the stored streak does satisfy between cycles: last_ac_date is a day
\* with a record, and the streak is at least 1 and at most the run of
\* recorded days that ends there.
C29_StreakOfOrderedDays ==
    (BetweenCycles /\ failures = 0) =>
        \A u \in DOMAIN streaks :
            /\ streaks[u].last_ac_date = None => streaks[u].current_streak = 0
            /\ streaks[u].last_ac_date # None =>
                    /\ Val(streaks[u].last_ac_date) \in RecordDays(u)
                    /\ streaks[u].current_streak >= 1
                    /\ streaks[u].current_streak
                            <= RunLength(RecordDays(u), Val(streaks[u].last_ac_date))

\* The window start of a cycle that read the watermark b.
WindowStartAt(b) ==
    IF b.last_checked_epoch - 86400 > 0 THEN b.last_checked_epoch - 86400 ELSE 0

\* Dropped as claimed: before the window, or at the watermark's epoch with
\* a stored id and an id that is missing or not greater.
DroppedAsClaimed(r, b) ==
    \/ r.epoch_second < WindowStartAt(b)
    \/ /\ r.epoch_second = b.last_checked_epoch
       /\ b.last_submission_id # << >>
       /\ (r.id = << >> \/ r.id[1] <= b.last_submission_id[1])

\* The positions of poll_user from the filter on.
PastFetch(t) == t.pc \in CyclePcs \ {"fetch"}

\* C30: in every cycle whose filter has run, an AC result served is left out
\* of the filtered list iff it is dropped as claimed, and a non-AC result is
\* always left out; the loop hands the filtered entries to handle_ac one by
\* one from the first, and reaches update_fetch_state only after the last;
\* and a submission record is appended only for an AC entry that is not
\* older than the window start of its cycle.
C30_DroppedExactlyWhenOldOrTied ==
    /\ [](\A c \in FilterRuns :
            /\ c.filtered \subseteq c.results
            /\ \A r \in c.results :
                    IF r.result = "AC"
                    THEN r \notin c.filtered <=> DroppedAsClaimed(r, c.before)
                    ELSE r \notin c.filtered)
    /\ [](\A l \in Loops :
            PastFetch(task[l]) =>
                IF task[l].pc = "update_fetch_state"
                THEN task[l].idx = Len(task[l].filtered) + 1
                ELSE task[l].idx \in 1 .. Len(task[l].filtered))
    /\ [][\A l \in Loops :
            /\ (task[l].pc = "fetch" /\ PastFetch(task'[l])) =>
                    task'[l].pc = "handle" /\ task'[l].idx = 1
            /\ (PastFetch(task[l]) /\ PastFetch(task'[l])) =>
                    /\ task'[l].filtered = task[l].filtered
                    /\ task'[l].idx \in {task[l].idx, task[l].idx + 1}
                    /\ task'[l].idx = task[l].idx + 1 =>
                            task'[l].pc \in {"handle", "update_fetch_state"}]_vars
    /\ [][Len(submissions') > Len(submissions) =>
            \E l \in Loops :
                LET rec == submissions'[Len(submissions')]
                    b == [last_checked_epoch |-> task[l].last_epoch,
                          last_submission_id |-> task[l].last_submission_id]
                IN  /\ task[l].pc = "insert_submission"
                    /\ Cur(l) \in task[l].results
                    /\ Cur(l).result = "AC"
                    /\ Cur(l).epoch_second >= WindowStartAt(b)
                    /\ rec.discord_id = task[l].discord_id
                    /\ rec.submitted_at = Cur(l).epoch_second
                    /\ <<rec.problem_id>> = Cur(l).problem_id]_vars

\* A cycle read the watermark (87900, 12) and was served, by the legacy
\* endpoint, sC from before its window, sD at the watermark and sB from
\* inside the window: it dropped the first two and kept sB, which has been
\* credited.
C30_Witness ==
    \E c \in FilterRuns :
        /\ c.before = [last_checked_epoch |-> 87900, last_submission_id |-> <<12>>]
        /\ c.results = {sB, sC, sD}
        /\ c.filtered = {sB}
        /\ \E i \in DOMAIN submissions :
                submissions[i].problem_id = "p2" /\ submissions[i].submitted_at = 1500

\* The step of task l is the update_fetch_state that ends its cycle.
StoresWatermark(l) ==
    /\ task[l].pc = "update_fetch_state"
    /\ task'[l].pc = "next_user"
    /\ prev'[task[l].discord_id].outcome = "done"

\* The entries task l has filtered, as a set.
FilteredOf(l) == {task[l].filtered[i] : i \in DOMAIN task[l].filtered}

\* C31: when a cycle in which no entry was credited (every filtered entry
\* was skipped) and whose filtered entries reach beyond the watermark it
\* read stores its watermark, last_checked_epoch becomes the maximum
\* filtered epoch, and no record, aggregate, streak or LastAcceptance was
\* written for the skipped entries.
C31_SkippedEntriesAdvanceWatermark ==
    [][\A l \in Loops :
        (/\ StoresWatermark(l)
         /\ task[l].credited = 0
         /\ MaxEpoch(FilteredOf(l)) > task[l].last_epoch) =>
            /\ \A e \in FilteredOf(l) : IsSkipped(task[l].discord_id, e)
            /\ fetch_state'[task[l].discord_id].last_checked_epoch
                    = MaxEpoch(FilteredOf(l))
            /\ fetch_state'[task[l].discord_id].last_checked_epoch
                    > fetch_state[task[l].discord_id].last_checked_epoch
            /\ UNCHANGED <<submissions, weekly_scores, streaks, last_ac>>]_vars

\* The cycle after the one that credited sA (p1, epoch 1500) filtered sH (no
\* problem id) and sD (p1, 24 hours after sA): both were skipped, and the
\* watermark is at sD.
C31_Witness ==
    /\ prev[1].outcome = "done"
    /\ prev[1].before = [last_checked_epoch |-> 1500, last_submission_id |-> <<11>>]
    /\ prev[1].filtered = {sH, sD}
    /\ fetch_state[1] = [last_checked_epoch |-> 87900, last_submission_id |-> <<12>>]
    /\ Len(submissions) = 1
    /\ failures = 0

\* C32: handle_ac of an entry whose problem has a stored LastAcceptance goes
\* on to credit it when its timestamp is 604800 seconds or more after the
\* stored one, and returns without crediting when it is less than that
\* after it, or before it; and no record is ever appended for an entry with
\* a timestamp less than 604800 seconds after, or before, the stored
\* LastAcceptance of its problem.
C32_CooldownBoundExclusive ==
    /\ [][\A l \in Loops :
            (/\ task[l].pc = "handle"
             /\ task'[l] # task[l]
             /\ Cur(l).problem_id # << >>
             /\ <<task[l].discord_id, Cur(l).problem_id[1]>> \in DOMAIN last_ac) =>
                LET since == Cur(l).epoch_second
                                - last_ac[<<task[l].discord_id, Cur(l).problem_id[1]>>]
                IN  IF since >= 604800
                    THEN task'[l].pc = "update_streak"
                    ELSE /\ task'[l].pc \in {"handle", "update_fetch_state"}
                         /\ task'[l].idx = task[l].idx + 1
                         /\ task'[l].credited = task[l].credited]_vars
    /\ [][Len(submissions') > Len(submissions) =>
            \E l \in Loops :
                LET key == <<task[l].discord_id, Cur(l).problem_id[1]>>
                IN  /\ task[l].pc = "insert_submission"
                    /\ task'[l].credited = task[l].credited + 1
                    /\ key \in DOMAIN last_ac =>
                            Cur(l).epoch_second - last_ac[key] >= 604800]_vars

\* sA (p1, epoch 1500) is credited and the stored LastAcceptance; sF (p1,
\* exactly 604800 seconds later) has a record too, and sD (p1, between the
\* two) has none.
C32_Witness ==
    /\ \E i, j \in DOMAIN submissions :
            /\ i < j
            /\ submissions[i].problem_id = "p1" /\ submissions[i].submitted_at = 1500
            /\ submissions[j].problem_id = "p1" /\ submissions[j].submitted_at = 606300
    /\ \A i \in DOMAIN submissions : submissions[i].submitted_at # 87900
    /\ sD \in prev[1].filtered
    /\ last_ac[<<1, "p1">>] = 606300
    /\ failures = 0

\* The sum of score_final over the first n submission records of user u
\* whose week is w.
RECURSIVE RecordSum(_, _, _)
RecordSum(n, w, u) ==
    IF n = 0 THEN 0
    ELSE RecordSum(n - 1, w, u) +
         (IF /\ submissions[n].discord_id = u
             /\ week_start_jst(submissions[n].submitted_at) = w
          THEN submissions[n].score_final ELSE 0)

\* The weeks that have a record or an aggregate.
WeeksKnown ==
    {week_start_jst(submissions[i].submitted_at) : i \in DOMAIN submissions}
        \cup {k[1] : k \in DOMAIN weekly_scores}

\* C33: between poll cycles, the stored aggregate of every week and user is
\* the sum of score_final over the user's records of that week.
C33_AggregateIsSumOfRecords ==
    BetweenCycles =>
        \A u \in DOMAIN users : \A w \in WeeksKnown :
            db_get_weekly_score(weekly_scores, w, u) = RecordSum(Len(submissions), w, u)

\* The same, as long as no call has failed.
AggregateIsSumWithoutFailures == failures = 0 => C33_AggregateIsSumOfRecords

\* The timestamps of the records of user and problem k = <<u, p>>.
RecordTimes(k) ==
    {submissions[i].submitted_at :
        i \in {j \in DOMAIN submissions :
                    submissions[j].discord_id = k[1] /\ submissions[j].problem_id = k[2]}}

\* C34: as long as no call has failed, between poll cycles any two records
\* of one user and problem are 604800 seconds or more apart, a LastAcceptance
\* entry exists exactly for the pairs that have a record and holds the latest
\* timestamp among the pair's records; and no step removes or lowers a
\* LastAcceptance entry.
C34_RecordsSevenDaysApart ==
    /\ []((BetweenCycles /\ failures = 0) =>
            /\ \A i, j \in DOMAIN submissions :
                    (/\ i # j
                     /\ submissions[i].discord_id = submissions[j].discord_id
                     /\ submissions[i].problem_id = submissions[j].problem_id
                     /\ submissions[i].submitted_at <= submissions[j].submitted_at) =>
                        submissions[j].submitted_at - submissions[i].submitted_at >= 604800
            /\ DOMAIN last_ac = {<<submissions[i].discord_id, submissions[i].problem_id>> :
                                    i \in DOMAIN submissions}
            /\ \A k \in DOMAIN last_ac :
                    /\ last_ac[k] \in RecordTimes(k)
                    /\ \A t \in RecordTimes(k) : t <= last_ac[k])
    /\ [][failures' = 0 =>
            \A k \in DOMAIN last_ac :
                k \in DOMAIN last_ac' /\ last_ac'[k] >= last_ac[k]]_vars

\* Between cycles and without a failure, p1 has the two records of sA and
\* sF, 604800 seconds apart, and the stored LastAcceptance is that of sF; sD,
\* of the same problem, was handled in between.
C34_Witness ==
    /\ BetweenCycles
    /\ failures = 0
    /\ RecordTimes(<<1, "p1">>) = {1500, 606300}
    /\ last_ac[<<1, "p1">>] = 606300
    /\ remote[1] = {sA, sD, sF}

\* C35: as long as no call has failed, no step moves a user's last_ac_date
\* to an earlier date (or unsets it), and the update_streak of an entry whose
\* JST date is before the stored last_ac_date leaves last_ac_date and
\* current_streak as they are.
C35_LastAcDateNeverMovesBack ==
    /\ [][\A u \in DOMAIN streaks :
            (failures' = 0 /\ streaks[u].last_ac_date # << >>) =>
                /\ streaks'[u].last_ac_date # << >>
                /\ streaks'[u].last_ac_date[1] >= streaks[u].last_ac_date[1]]_vars
    /\ [][\A l \in Loops :
            (/\ failures' = 0
             /\ task[l].pc = "update_streak"
             /\ task'[l].pc = "insert_submission"
             /\ streaks[task[l].discord_id].last_ac_date # << >>
             /\ (Cur(l).epoch_second + 32400) \div 86400
                    < streaks[task[l].discord_id].last_ac_date[1]) =>
                streaks'[task[l].discord_id] = streaks[task[l].discord_id]]_vars

\* C36: current_streak is never negative and is at least 1 once last_ac_date
\* is set; when the record of a credited entry is written, the stored
\* last_ac_date is the entry's JST date and the stored streak is at least 1;
\* and every record has a multiplier between 1.05 and 1.35, the one of the
\* streak stored for it, and score_final >= score_base.
C36_CreditedStreakAtLeastOne ==
    /\ [](\A u \in DOMAIN streaks :
            /\ streaks[u].current_streak >= 0
            /\ streaks[u].last_ac_date # << >> => streaks[u].current_streak >= 1)
    /\ [](\A i \in DOMAIN submissions :
            /\ submissions[i].streak_mult >= 105
            /\ submissions[i].streak_mult <= 135
            /\ submissions[i].score_final >= submissions[i].score_base)
    /\ [][\A l \in Loops :
            (task[l].pc = "insert_submission" /\ task'[l].pc = "add_weekly_score") =>
                LET u == task[l].discord_id
                    n == streaks[u].current_streak
                    rec == submissions'[Len(submissions')]
                IN  /\ n >= 1
                    /\ streaks[u].last_ac_date
                            = <<(Cur(l).epoch_second + 32400) \div 86400>>
                    /\ rec.streak_mult = 100 + 5 * (IF n < 7 THEN n ELSE 7)
                    /\ rec.discord_id = u]_vars

\* User 2, whose streak was 6, has been credited on the two following days
\* at the capped multiplier 1.35 (streak 8), and user 1 at 1.05.
C36_Witness ==
    /\ streaks[2].current_streak = 8
    /\ Cardinality({i \in DOMAIN submissions :
            submissions[i].discord_id = 2 /\ submissions[i].streak_mult = 135}) = 2
    /\ \E i \in DOMAIN submissions :
            submissions[i].discord_id = 1 /\ submissions[i].streak_mult = 105

\* Result r survives the filter of a cycle that read the watermark b.
Survives(r, b) == r.result = "AC" /\ ~ DroppedAsClaimed(r, b)

\* C37: a cycle ends at its filter, without a failure, exactly when no result
\* served survives it; and neither the step that starts such a cycle nor the
\* step that ends it writes FetchState, Streak, WeeklyAggregate, a record or
\* LastAcceptance, so that FetchState is still what the cycle read.
C37_EmptyCycleWritesNothing ==
    /\ [][\A l \in Loops :
            (task[l].pc = "fetch" /\ task'[l].pc # "fetch" /\ failures' = failures) =>
                LET u == task[l].discord_id
                    b == [last_checked_epoch |-> task[l].last_epoch,
                          last_submission_id |-> task[l].last_submission_id]
                IN  IF task'[l].pc = "handle"
                    THEN \E r \in task'[l].results : Survives(r, b)
                    ELSE /\ task'[l].pc = "next_user"
                         /\ prev'[u].outcome = "empty"
                         /\ prev'[u].before = b
                         /\ \A r \in prev'[u].results : ~ Survives(r, b)
                         /\ fetch_state[u] = b
                         /\ UNCHANGED <<fetch_state, streaks, weekly_scores,
                                        submissions, last_ac>>]_vars
    /\ [][\A l \in Loops :
            (task[l].pc = "next_user" /\ task'[l].pc = "fetch") =>
                UNCHANGED <<fetch_state, streaks, weekly_scores, submissions, last_ac>>]_vars

\* A cycle that read the watermark (87900, 12) was served sC (before the
\* window), sD (at the watermark, same id) and sG (not accepted), and ended
\* at the filter.
C37_Witness ==
    /\ prev[1].outcome = "empty"
    /\ prev[1].before = [last_checked_epoch |-> 87900, last_submission_id |-> <<12>>]
    /\ prev[1].results = {sC, sD, sG}
    /\ fetch_state[1] = prev[1].before
    /\ Len(submissions) = 1

\* What the store holds about user u.
StoredAbout(u) ==
    [fetch_state |-> IF u \in DOMAIN fetch_state THEN <<fetch_state[u]>> ELSE << >>,
     streak |-> IF u \in DOMAIN streaks THEN <<streaks[u]>> ELSE << >>,
     weekly |-> {<<k, weekly_scores[k]>> : k \in {x \in DOMAIN weekly_scores : x[2] = u}},
     records |-> SelectSeq(submissions, LAMBDA rec : rec.discord_id = u),
     last_ac |-> {<<k, last_ac[k]>> : k \in {x \in DOMAIN last_ac : x[1] = u}}]

\* A task is inside a poll cycle of user u.
CycleOf(u) == \E l \in Loops : InCycle(l) /\ task[l].discord_id = u

\* C38: while a user is deactivated no task is inside a poll cycle of that
\* user and no step changes what the store holds about them; a cycle of a
\* user starts from the stored FetchState; and, as long as no call has
\* failed, no acceptance has two records.
C38_DeactivatedUserUntouched ==
    /\ [](\A u \in DOMAIN users : ~ users[u].is_active => ~ CycleOf(u))
    /\ [][\A u \in DOMAIN users :
            (~ users[u].is_active /\ ~ users'[u].is_active) =>
                StoredAbout(u)' = StoredAbout(u)]_vars
    /\ [][\A l \in Loops :
            (task[l].pc = "next_user" /\ task'[l].pc = "fetch") =>
                fetch_state[task'[l].discord_id] =
                    [last_checked_epoch |-> task'[l].last_epoch,
                     last_submission_id |-> task'[l].last_submission_id]]_vars
    /\ [](failures = 0 =>
            \A i, j \in DOMAIN submissions :
                EventOf(submissions[i]) = EventOf(submissions[j]) => i = j)

\* The users a pass is still going to poll, and the one it is polling.
InPass(u) ==
    \E l \in Loops :
        \/ InCycle(l) /\ task[l].discord_id = u
        \/ \E i \in DOMAIN task[l].todo : task[l].todo[i] = u

\* The same with "deactivated" read per pass: a user who is deactivated and
\* in no pass that has already read the active users.
DeactivatedUserOutsidePassUntouched ==
    /\ [][\A u \in DOMAIN users :
            (~ users[u].is_active /\ ~ InPass(u)) =>
                /\ ~ users'[u].is_active => ~ InPass(u)'
                /\ StoredAbout(u)' = StoredAbout(u)]_vars
    /\ [][\A l \in Loops :
            (task[l].pc = "next_user" /\ task'[l].pc = "fetch") =>
                fetch_state[task'[l].discord_id] =
                    [last_checked_epoch |-> task'[l].last_epoch,
                     last_submission_id |-> task'[l].last_submission_id]]_vars
    /\ [](failures = 0 =>
            \A i, j \in DOMAIN submissions :
                EventOf(submissions[i]) = EventOf(submissions[j]) => i = j)

\* The aggregates of week w.
AggregatesOf(w) ==
    {<<k, weekly_scores[k]>> : k \in {x \in DOMAIN weekly_scores : x[1] = w}}

\* The weeks whose reset ran while no poll cycle was in progress.
QuietResetWeeks ==
    {calls[i].args[1] :
        i \in {j \in DOMAIN calls : /\ calls[j].op = "handle_weekly_reset"
                                     /\ calls[j].in_cycle = {}}}

\* C39: once handle_weekly_reset has run for the week starting at w, no poll
\* cycle that starts later changes or creates a weekly aggregate keyed by w.
C39_ResetWeekIsFinal ==
    [][\A w \in QuietResetWeeks : AggregatesOf(w)' = AggregatesOf(w)]_vars

\* C39 (amended): once handle_weekly_reset has run for the week starting at
\* w, an aggregate keyed by w is never removed or lowered, and the aggregates
\* of w change only in the add_weekly_score of a credited entry whose
\* timestamp lies in w.
C39_ResetWeekOnlyGrows ==
    [][\A w \in ResetWeeks :
        /\ \A k \in DOMAIN weekly_scores :
                k[1] = w => /\ k \in DOMAIN weekly_scores'
                            /\ weekly_scores'[k] >= weekly_scores[k]
        /\ AggregatesOf(w)' # AggregatesOf(w) =>
                \E l \in Loops :
                    /\ task[l].pc = "add_weekly_score"
                    /\ w <= Cur(l).epoch_second
                    /\ Cur(l).epoch_second < w + 604800]_vars

\* The reset of the week of 1969-12-29 ran between two cycles and read no
\* score; a later cycle has credited sA (epoch 1500) to that week.
C39_Witness ==
    /\ Len(calls) >= 1
    /\ calls[1].op = "handle_weekly_reset"
    /\ calls[1].args = <<-266400>>
    /\ calls[1].in_cycle = {}
    /\ calls[1].result = << >>
    /\ db_get_weekly_score(weekly_scores, -266400, 1) = 262
    /\ Len(submissions) = 1
    /\ failures = 0
====
